---- MODULE Spec2Model ----
(***************************************************************************)
(* dailies-analyzer: the bounds serializer of csv_to_org.py                *)
(* (build_org_file) and the parse path of dailies_analyzer/parser.py       *)
(* (parse_gptel_bounds, extract_properties_block, find_top_level_sections, *)
(* filter_bounds_for_section, extract_messages_from_bounds,                *)
(* parse_org_file).                                                        *)
(*                                                                         *)
(* A Python str is a sequence of glyphs.  A glyph is a one-character       *)
(* string, with two exceptions: BT is the backtick (which cannot be        *)
(* written inside a TLA+ string), and the block glyphs "x10", "x100", ...  *)
(* each stand for 10^k consecutive letters 'x', so that documents of       *)
(* millions of characters stay small values.  len() is StrLen, slicing is  *)
(* PySlice; both count characters, not glyphs.                             *)
(***************************************************************************)
EXTENDS Integers, Sequences, FiniteSets, TLC

\* ------------------------------------------------------------------------
\* Strings
\* ------------------------------------------------------------------------
BT == "bt"

Width(g) ==
  CASE g = "x10" -> 10
    [] g = "x100" -> 100
    [] g = "x1000" -> 1000
    [] g = "x10000" -> 10000
    [] g = "x100000" -> 100000
    [] g = "x1000000" -> 1000000
    [] g = "x10000000" -> 10000000
    [] OTHER -> 1

RECURSIVE Rep(_, _)
Rep(g, n) == IF n <= 0 THEN <<>> ELSE <<g>> \o Rep(g, n - 1)

\* 'x' * n, written with block glyphs
Fill(n) ==
  Rep("x10000000", n \div 10000000)
    \o Rep("x1000000", (n \div 1000000) % 10)
    \o Rep("x100000", (n \div 100000) % 10)
    \o Rep("x10000", (n \div 10000) % 10)
    \o Rep("x1000", (n \div 1000) % 10)
    \o Rep("x100", (n \div 100) % 10)
    \o Rep("x10", (n \div 10) % 10)
    \o Rep("x", n % 10)

Min(a, b) == IF a < b THEN a ELSE b
Max(a, b) == IF a > b THEN a ELSE b

\* least and greatest element of a non-empty set of integers
SetMin(S) == CHOOSE k \in S : \A j \in S : k <= j
SetMax(S) == CHOOSE k \in S : \A j \in S : k >= j

\* number of characters of the glyphs s[lo .. hi]
RECURSIVE WidthSum(_, _, _)
WidthSum(s, lo, hi) ==
  IF lo > hi THEN 0
  ELSE IF lo = hi THEN Width(s[lo])
  ELSE LET mid == (lo + hi) \div 2
       IN WidthSum(s, lo, mid) + WidthSum(s, mid + 1, hi)

\* len(s)
StrLen(s) == WidthSum(s, 1, Len(s))

\* number of whole glyphs of s that lie within its first k characters
GlyphsWithin(s, k) ==
  IF StrLen(s) = Len(s) THEN Min(Max(k, 0), Len(s))
  ELSE SetMax({m \in 0..Len(s) : WidthSum(s, 1, m) <= k})

\* s[:k] for k >= 0; a block cut in two leaves its first characters
Take(s, k) ==
  LET m == GlyphsWithin(s, k)
  IN SubSeq(s, 1, m)
       \o (IF m < Len(s) THEN Fill(k - WidthSum(s, 1, m)) ELSE <<>>)

\* s[k:] for k >= 0; a block cut in two leaves its last characters
Drop(s, k) ==
  LET m == GlyphsWithin(s, k)
      r == k - WidthSum(s, 1, m)
  IN IF m >= Len(s) THEN <<>>
     ELSE IF r > 0 THEN Fill(Width(s[m + 1]) - r) \o SubSeq(s, m + 2, Len(s))
     ELSE SubSeq(s, m + 1, Len(s))

\* s[a:b] with Python's treatment of negative and out-of-range indices
PySlice(s, a, b) ==
  LET n == StrLen(s)
      lo == IF a < 0 THEN Max(a + n, 0) ELSE Min(a, n)
      hi == IF b < 0 THEN Max(b + n, 0) ELSE Min(b, n)
  IN IF lo >= hi THEN <<>> ELSE Take(Drop(s, lo), hi - lo)

\* s.startswith(p)
StartsWith(s, p) == Len(s) >= Len(p) /\ SubSeq(s, 1, Len(p)) = p

\* s[i:].startswith(p) for a 1-based glyph index i
StartsWithAt(s, i, p) ==
  i >= 1 /\ i + Len(p) - 1 <= Len(s) /\ SubSeq(s, i, i + Len(p) - 1) = p

\* first glyph index k >= i with s[k] = c, 0 when there is none
IndexFrom(s, c, i) ==
  LET I == {k \in i..Len(s) : s[k] = c}
  IN IF I = {} THEN 0 ELSE SetMin(I)

\* first glyph index k >= i where p starts, 0 when there is none
FindFrom(s, p, i) ==
  LET I == {k \in i..Len(s) : StartsWithAt(s, k, p)}
  IN IF I = {} THEN 0 ELSE SetMin(I)

\* the whitespace characters that have no escape in a string: U+000B,
\* U+001C..U+001F, U+0085 and U+00A0
VT == ""
FS == ""
GS == ""
RS == ""
US == ""
NEL == ""
NBSP == " "

\* the regex class \s of a str pattern (and what str.strip() removes): the
\* characters str.isspace() holds for, up to U+00FF; the spaces beyond
\* (U+1680, U+2000..U+200A, U+2028, U+2029, U+202F, U+205F, U+3000) cannot
\* be written in a string here and are in no input
IsSpace(c) ==
  c \in {" ", "\t", "\n", "\r", "\f", VT, FS, GS, RS, US, NEL, NBSP}

\* the regex class \d
IsDigit(c) == c \in {"0", "1", "2", "3", "4", "5", "6", "7", "8", "9"}

\* s.lstrip(): Strip that leaves the whitespace at the end
StripLeading(s) ==
  LET I == {k \in 1..Len(s) : ~IsSpace(s[k])}
  IN IF I = {} THEN <<>>
     ELSE SubSeq(s, SetMin(I), Len(s))

\* s.strip()
Strip(s) ==
  LET I == {k \in 1..Len(s) : ~IsSpace(s[k])}
  IN IF I = {} THEN <<>>
     ELSE SubSeq(s, SetMin(I), SetMax(I))

\* s.split("\n")
RECURSIVE SplitLines(_)
SplitLines(s) ==
  LET i == IndexFrom(s, "\n", 1)
  IN IF i = 0 THEN <<s>>
     ELSE <<SubSeq(s, 1, i - 1)>> \o SplitLines(SubSeq(s, i + 1, Len(s)))

\* "\n".join(lines)
RECURSIVE JoinLines(_)
JoinLines(lines) ==
  IF lines = <<>> THEN <<>>
  ELSE IF Len(lines) = 1 THEN lines[1]
  ELSE lines[1] \o <<"\n">> \o JoinLines(Tail(lines))

DigitGlyph == <<"0", "1", "2", "3", "4", "5", "6", "7", "8", "9">>
DigitVal(c) == CHOOSE d \in 0..9 : DigitGlyph[d + 1] = c

\* str(n) for n >= 0
RECURSIVE IntToStr(_)
IntToStr(n) ==
  IF n < 10 THEN <<DigitGlyph[n + 1]>>
  ELSE IntToStr(n \div 10) \o <<DigitGlyph[(n % 10) + 1]>>

\* int(s) for a string of digits
RECURSIVE StrToInt(_)
StrToInt(s) ==
  IF s = <<>> THEN 0
  ELSE 10 * StrToInt(SubSeq(s, 1, Len(s) - 1)) + DigitVal(s[Len(s)])

\* ------------------------------------------------------------------------
\* csv_to_org.py: markdown_to_org
\* ------------------------------------------------------------------------
\* length of the run of glyph c in s starting at glyph i
RunOf(s, i, c) ==
  LET I == {k \in i..Len(s) : s[k] # c}
  IN IF I = {} THEN Max(Len(s) - i + 1, 0) ELSE SetMin(I) - i

\* length of the run of digits of s starting at glyph i
DigitRun(s, i) ==
  LET I == {k \in i..Len(s) : ~IsDigit(s[k])}
  IN IF I = {} THEN Max(Len(s) - i + 1, 0) ELSE SetMin(I) - i

\* length of the run of whitespace of s starting at glyph i
SpaceRun(s, i) ==
  LET I == {k \in i..Len(s) : ~IsSpace(s[k])}
  IN IF I = {} THEN Max(Len(s) - i + 1, 0) ELSE SetMin(I) - i

\* re.match(r"^(#{1,6})\s+(.*)", line): len(group(1)), or 0 when there is
\* no match
HeadingLevel(line) ==
  LET n == RunOf(line, 1, "#")
  IN IF n >= 1 /\ n <= 6 /\ SpaceRun(line, n + 1) > 0 THEN n ELSE 0

\* group(2) of the heading match
HeadingText(line) ==
  LET n == RunOf(line, 1, "#")
  IN SubSeq(line, n + 1 + SpaceRun(line, n + 1), Len(line))

\* where a match of r"`([^`]+)`" that starts at glyph i ends (the glyph
\* after it), 0 when there is none
InlineCodeEnd(s, i) ==
  LET j == IF s[i] = BT THEN IndexFrom(s, BT, i + 1) ELSE 0
  IN IF j > i + 1 THEN j + 1 ELSE 0

\* re.sub(r"`([^`]+)`", r"~\1~", line), scanning from glyph i
RECURSIVE SubInlineCode(_, _)
SubInlineCode(s, i) ==
  LET M == {k \in i..Len(s) : InlineCodeEnd(s, k) > 0}
      k == SetMin(M)
      e == InlineCodeEnd(s, k)
  IN IF M = {} THEN SubSeq(s, i, Len(s))
     ELSE SubSeq(s, i, k - 1) \o <<"~">> \o SubSeq(s, k + 1, e - 2) \o <<"~">>
            \o SubInlineCode(s, e)

\* where a match of r"\*\*(.+?)\*\*" that starts at glyph i ends, or 0
BoldEnd(s, i) ==
  LET k == IF StartsWithAt(s, i, <<"*", "*">>)
           THEN FindFrom(s, <<"*", "*">>, i + 3) ELSE 0
  IN IF k > 0 THEN k + 2 ELSE 0

\* re.sub(r"\*\*(.+?)\*\*", r"*\1*", line), scanning from glyph i
RECURSIVE SubBold(_, _)
SubBold(s, i) ==
  LET M == {k \in i..Len(s) : BoldEnd(s, k) > 0}
      k == SetMin(M)
      e == BoldEnd(s, k)
  IN IF M = {} THEN SubSeq(s, i, Len(s))
     ELSE SubSeq(s, i, k - 1) \o <<"*">> \o SubSeq(s, k + 2, e - 3) \o <<"*">>
            \o SubBold(s, e)

\* the "]" that closes group 1 of r"!\[([^\]]*)\]\(([^)]+)\)" matched at i
ImageClose(s, i) ==
  IF StartsWithAt(s, i, <<"!", "[">>) THEN IndexFrom(s, "]", i + 2) ELSE 0

\* where that match ends, or 0
ImageEnd(s, i) ==
  LET j == ImageClose(s, i)
      k == IF j > 0 /\ StartsWithAt(s, j + 1, <<"(">>)
           THEN IndexFrom(s, ")", j + 2) ELSE 0
  IN IF j > 0 /\ k >= j + 3 THEN k + 1 ELSE 0

\* re.sub(r"!\[([^\]]*)\]\(([^)]+)\)", r"[[\2]]", line), scanning from i
RECURSIVE SubImage(_, _)
SubImage(s, i) ==
  LET M == {k \in i..Len(s) : ImageEnd(s, k) > 0}
      k == SetMin(M)
      e == ImageEnd(s, k)
  IN IF M = {} THEN SubSeq(s, i, Len(s))
     ELSE SubSeq(s, i, k - 1)
            \o <<"[", "[">> \o SubSeq(s, ImageClose(s, k) + 2, e - 2) \o <<"]", "]">>
            \o SubImage(s, e)

\* the "]" that closes group 1 of r"\[([^\]]+)\]\(([^)]+)\)" matched at i
LinkClose(s, i) ==
  LET j == IF s[i] = "[" THEN IndexFrom(s, "]", i + 1) ELSE 0
  IN IF j >= i + 2 THEN j ELSE 0

\* where that match ends, or 0
LinkEnd(s, i) ==
  LET j == LinkClose(s, i)
      k == IF j > 0 /\ StartsWithAt(s, j + 1, <<"(">>)
           THEN IndexFrom(s, ")", j + 2) ELSE 0
  IN IF j > 0 /\ k >= j + 3 THEN k + 1 ELSE 0

\* re.sub(r"\[([^\]]+)\]\(([^)]+)\)", r"[[\2][\1]]", line), scanning from i
RECURSIVE SubLink(_, _)
SubLink(s, i) ==
  LET M == {k \in i..Len(s) : LinkEnd(s, k) > 0}
      k == SetMin(M)
      e == LinkEnd(s, k)
      j == LinkClose(s, k)
  IN IF M = {} THEN SubSeq(s, i, Len(s))
     ELSE SubSeq(s, i, k - 1)
            \o <<"[", "[">> \o SubSeq(s, j + 2, e - 2) \o <<"]", "[">>
            \o SubSeq(s, k + 1, j - 1) \o <<"]", "]">>
            \o SubLink(s, e)

BEGIN_SRC == <<"#", "+", "b", "e", "g", "i", "n", "_", "s", "r", "c">>
END_SRC == <<"#", "+", "e", "n", "d", "_", "s", "r", "c">>
FENCE == <<BT, BT, BT>>

\* MdLoop without lines 65-67: lines within a fence are converted as well
RECURSIVE MdLoopFenceBlind(_, _, _)
MdLoopFenceBlind(lines, i, in_code_block) ==
  IF i > Len(lines) THEN <<>>
  ELSE LET line == lines[i]
           stripped == Strip(line)
           lang == Strip(SubSeq(stripped, 4, Len(stripped)))
       IN IF StartsWith(stripped, FENCE)
          THEN IF in_code_block
               THEN <<END_SRC>> \o MdLoopFenceBlind(lines, i + 1, FALSE)
               ELSE <<IF lang # <<>> THEN BEGIN_SRC \o <<" ">> \o lang
                                     ELSE BEGIN_SRC>>
                      \o MdLoopFenceBlind(lines, i + 1, TRUE)
          ELSE IF HeadingLevel(line) > 0
          THEN <<Rep("*", HeadingLevel(line) + 3) \o <<" ">> \o HeadingText(line)>>
                 \o MdLoopFenceBlind(lines, i + 1, in_code_block)
          ELSE <<SubLink(SubImage(SubBold(SubInlineCode(line, 1), 1), 1), 1)>>
                 \o MdLoopFenceBlind(lines, i + 1, in_code_block)

\* the body of the loop over lines, from line i on
RECURSIVE MdLoop(_, _, _)
MdLoop(lines, i, in_code_block) ==
  IF i > Len(lines) THEN <<>>
  ELSE LET line == lines[i]
           stripped == Strip(line)
           lang == Strip(SubSeq(stripped, 4, Len(stripped)))
       IN IF StartsWith(stripped, FENCE)
          THEN IF in_code_block
               THEN <<END_SRC>> \o MdLoop(lines, i + 1, FALSE)
               ELSE <<IF lang # <<>> THEN BEGIN_SRC \o <<" ">> \o lang
                                     ELSE BEGIN_SRC>>
                      \o MdLoop(lines, i + 1, TRUE)
          ELSE IF in_code_block
          THEN <<line>> \o MdLoop(lines, i + 1, TRUE)
          ELSE IF HeadingLevel(line) > 0
          THEN <<Rep("*", HeadingLevel(line) + 3) \o <<" ">> \o HeadingText(line)>>
                 \o MdLoop(lines, i + 1, FALSE)
          ELSE <<SubLink(SubImage(SubBold(SubInlineCode(line, 1), 1), 1), 1)>>
                 \o MdLoop(lines, i + 1, FALSE)

markdown_to_org(text) == JoinLines(MdLoop(SplitLines(text), 1, FALSE))

\* ------------------------------------------------------------------------
\* csv_to_org.py: parse_conversation, escape_org_headlines
\* ------------------------------------------------------------------------
\* text.replace("\r\n", "\n").replace("\r", "\n"): the "\r" of a "\r\n" is
\* dropped, any other "\r" becomes "\n"
NotDropped(c) == c # ""
NormalizeNewlines(text) ==
  SelectSeq([k \in 1..Len(text) |->
               IF text[k] # "\r" THEN text[k]
               ELSE IF k < Len(text) /\ text[k + 1] = "\n" THEN ""
               ELSE "\n"],
            NotDropped)

\* filepath.read_text(encoding="utf-8") of parser.py, line 215: the text of
\* the file with "\r\n" and "\r" read as "\n"
read_text(bytes) ==
  IF \A k \in 1..Len(bytes) : bytes[k] # "\r" THEN bytes
  ELSE NormalizeNewlines(bytes)

QUESTION == <<"Q", "u", "e", "s", "t", "i", "o", "n", ":">>
AI_RESPONSE == <<"A", "I", " ", "R", "e", "s", "p", "o", "n", "s", "e", ":">>

\* the line matches r"^word[ \t]*$"
IsMarkerLine(line, word) ==
  /\ StartsWith(line, word)
  /\ \A k \in (Len(word) + 1)..Len(line) : line[k] \in {" ", "\t"}

\* the role a marker line stands for, "none" for any other line
MarkerRole(line) ==
  IF IsMarkerLine(line, QUESTION) THEN "user"
  ELSE IF IsMarkerLine(line, AI_RESPONSE) THEN "assistant"
  ELSE "none"

\* re.sub(r"(?m)^\* ", "- ", text), line by line
RECURSIVE EscapeLines(_)
EscapeLines(lines) ==
  IF lines = <<>> THEN <<>>
  ELSE <<IF StartsWith(Head(lines), <<"*", " ">>)
         THEN <<"-", " ">> \o SubSeq(Head(lines), 3, Len(Head(lines)))
         ELSE Head(lines)>> \o EscapeLines(Tail(lines))

escape_org_headlines(text) == JoinLines(EscapeLines(SplitLines(text)))

\* the next line after line i at which re.split cuts: a marker line that a
\* "\n" follows, so never the last line; Len(lines) + 1 when there is none
NextSplit(lines, i) ==
  SetMin({k \in (i + 1)..(Len(lines) - 1) : MarkerRole(lines[k]) # "none"}
           \cup {Len(lines) + 1})

\* lines 35-37: the message of a marker, if its content is not empty
ConvMessage(role, content) ==
  IF content # <<>>
  THEN <<[role |-> role, content |-> escape_org_headlines(content)]>>
  ELSE <<>>

\* lines 33-37, from line i on: the part after a marker line runs to the
\* next cut; a marker in the last line is found by re.findall but is no cut,
\* so it has no part of its own and belongs to the part before it
RECURSIVE ConvLoop(_, _)
ConvLoop(lines, i) ==
  IF i > Len(lines) \/ (i = Len(lines) /\ MarkerRole(lines[i]) # "none")
  THEN <<>>
  ELSE IF MarkerRole(lines[i]) = "none" THEN ConvLoop(lines, i + 1)
  ELSE ConvMessage(MarkerRole(lines[i]),
                   Strip(JoinLines(SubSeq(lines, i + 1, NextSplit(lines, i) - 1))))
         \o ConvLoop(lines, NextSplit(lines, i))

parse_conversation(text) == ConvLoop(SplitLines(NormalizeNewlines(text)), 1)

\* ------------------------------------------------------------------------
\* csv_to_org.py: build_org_file
\* ------------------------------------------------------------------------
\* the ceiling of the fixed-point loop, range(10)
MaxIter == 10

PROPERTIES_LINE == <<":", "P", "R", "O", "P", "E", "R", "T", "I", "E", "S", ":", "\n">>
GPTEL_TOPIC_KEY == <<":", "G", "P", "T", "E", "L", "_", "T", "O", "P", "I", "C", ":", " ">>
GPTEL_BOUNDS_KEY == <<":", "G", "P", "T", "E", "L", "_", "B", "O", "U", "N", "D", "S", ":", " ">>
END_BLOCK == <<":", "E", "N", "D", ":", "\n", "\n">>
RESPONSE_HEADING == <<"*", "*", "*", " ", "R", "e", "s", "p", "o", "n", "s", "e", "\n">>
\* the heading and local property block of a conversation
ConvHeading(topic) ==
  <<"*", " ">> \o topic \o <<"\n">>
    \o PROPERTIES_LINE
    \o GPTEL_TOPIC_KEY \o topic \o <<"\n">>
    \o END_BLOCK

\* first_line of a user message, truncated to 57 characters plus "..."
FirstLine(content) ==
  LET first_line == Strip(SplitLines(content)[1])
  IN IF StrLen(first_line) > 60 THEN Take(first_line, 57) \o <<".", ".", ".">>
     ELSE first_line

\* what a user message appends to body
UserBlock(content) ==
  <<"*", "*", " ">> \o FirstLine(content) \o <<"\n">> \o content \o <<"\n", "\n">>

\* make_topic(messages): the first line of the first user message, as
\* FirstLine truncates it, or "Conversation"
make_topic(messages) ==
  IF \E k \in 1..Len(messages) : messages[k].role = "user"
  THEN FirstLine(messages[SetMin({k \in 1..Len(messages) :
                                   messages[k].role = "user"})].content)
  ELSE <<"C", "o", "n", "v", "e", "r", "s", "a", "t", "i", "o", "n">>

\* props = f":PROPERTIES:\n:GPTEL_BOUNDS: {bounds_str}\n:END:\n\n"
Props(bounds_str) ==
  PROPERTIES_LINE \o GPTEL_BOUNDS_KEY \o bounds_str \o <<"\n">> \o END_BLOCK

\* EmacsPos without the step from 0-indexed to 1-indexed positions
EmacsPosZeroIndexed(ai_positions, offset) ==
  [i \in 1..Len(ai_positions) |->
     <<ai_positions[i][1] + offset, ai_positions[i][2] + offset>>]

\* emacs_pos = [(s + offset + 1, e + offset + 1) for s, e in ai_positions]
EmacsPos(ai_positions, offset) ==
  [i \in 1..Len(ai_positions) |->
     <<ai_positions[i][1] + offset + 1, ai_positions[i][2] + offset + 1>>]

\* " ".join(f"({s} {e})" for s, e in emacs_pos), from pair i on
RECURSIVE Pairs(_, _)
Pairs(emacs_pos, i) ==
  IF i > Len(emacs_pos) THEN <<>>
  ELSE (IF i > 1 THEN <<" ">> ELSE <<>>)
         \o <<"(">> \o IntToStr(emacs_pos[i][1]) \o <<" ">>
         \o IntToStr(emacs_pos[i][2]) \o <<")">>
         \o Pairs(emacs_pos, i + 1)

PLACEHOLDER == <<"(", "(", "r", "e", "s", "p", "o", "n", "s", "e", ")", ")">>

\* EncodeBounds without the "response" tag
EncodeBoundsUntagged(emacs_pos) ==
  <<"(">> \o Pairs(emacs_pos, 1) \o <<")">>

\* new_bounds = f"((response {pairs}))"
EncodeBounds(emacs_pos) ==
  <<"(", "(", "r", "e", "s", "p", "o", "n", "s", "e", " ">>
    \o Pairs(emacs_pos, 1) \o <<")", ")">>

\* NewBounds with the offset of the first iteration kept for all of them
NewBoundsStaleOffset(bounds_str, ai_positions) ==
  EncodeBounds(EmacsPos(ai_positions, StrLen(Props(PLACEHOLDER))))

\* new_bounds as one loop iteration computes it from bounds_str
NewBounds(bounds_str, ai_positions) ==
  EncodeBounds(EmacsPos(ai_positions, StrLen(Props(bounds_str))))

\* ------------------------------------------------------------------------
\* parser.py: parse_gptel_bounds
\* ------------------------------------------------------------------------
\* where a match of r"\((\d+)\s+(\d+)\)" that starts at glyph i ends (the
\* glyph after it), 0 when there is none
TaggedEnd(s, i) ==
  LET d1 == DigitRun(s, i + 1)
      p2 == i + 1 + d1
      w  == SpaceRun(s, p2)
      p3 == p2 + w
      d2 == DigitRun(s, p3)
      p4 == p3 + d2
  IN IF s[i] = "(" /\ d1 > 0 /\ w > 0 /\ d2 > 0 /\ p4 <= Len(s) /\ s[p4] = ")"
     THEN p4 + 1 ELSE 0

\* (int(start), int(end)) of the match at glyph i
TaggedPair(s, i) ==
  LET p2 == i + 1 + DigitRun(s, i + 1)
      p3 == p2 + SpaceRun(s, p2)
  IN <<StrToInt(SubSeq(s, i + 1, p2 - 1)),
       StrToInt(SubSeq(s, p3, p3 + DigitRun(s, p3) - 1))>>

\* the "." of a match of r"\((\d+)\s*\.\s*(\d+)\)" that starts at glyph i,
\* 0 when the match cannot get that far
DottedDot(s, i) ==
  LET d1 == DigitRun(s, i + 1)
      pd == i + 1 + d1 + SpaceRun(s, i + 1 + d1)
  IN IF s[i] = "(" /\ d1 > 0 /\ pd <= Len(s) /\ s[pd] = "." THEN pd ELSE 0

\* where that match ends, or 0
DottedEnd(s, i) ==
  LET pd == DottedDot(s, i)
      p3 == pd + 1 + SpaceRun(s, pd + 1)
      d2 == DigitRun(s, p3)
      p4 == p3 + d2
  IN IF pd > 0 /\ d2 > 0 /\ p4 <= Len(s) /\ s[p4] = ")" THEN p4 + 1 ELSE 0

\* (int(start), int(end)) of the match at glyph i
DottedPair(s, i) ==
  LET pd == DottedDot(s, i)
      p3 == pd + 1 + SpaceRun(s, pd + 1)
  IN <<StrToInt(SubSeq(s, i + 1, i + DigitRun(s, i + 1))),
       StrToInt(SubSeq(s, p3, p3 + DigitRun(s, p3) - 1))>>

\* re.findall of the tagged pattern, scanning from glyph i
RECURSIVE FindTagged(_, _)
FindTagged(s, i) ==
  LET M == {k \in i..Len(s) : TaggedEnd(s, k) > 0}
      k == SetMin(M)
  IN IF M = {} THEN <<>>
     ELSE <<TaggedPair(s, k)>> \o FindTagged(s, TaggedEnd(s, k))

\* re.findall of the dotted pattern, scanning from glyph i
RECURSIVE FindDotted(_, _)
FindDotted(s, i) ==
  LET M == {k \in i..Len(s) : DottedEnd(s, k) > 0}
      k == SetMin(M)
  IN IF M = {} THEN <<>>
     ELSE <<DottedPair(s, k)>> \o FindDotted(s, DottedEnd(s, k))

RESPONSE == <<"r", "e", "s", "p", "o", "n", "s", "e">>

\* parse_gptel_bounds falling back to the dotted pattern when the tagged one
\* finds nothing
parse_gptel_bounds_fallback(bounds_str) ==
  IF bounds_str = <<>> THEN <<>>
  ELSE IF FindFrom(bounds_str, RESPONSE, 1) > 0
          /\ FindTagged(bounds_str, 1) # <<>>
  THEN FindTagged(bounds_str, 1)
  ELSE FindDotted(bounds_str, 1)

parse_gptel_bounds(bounds_str) ==
  IF bounds_str = <<>> THEN <<>>
  ELSE IF FindFrom(bounds_str, RESPONSE, 1) > 0 THEN FindTagged(bounds_str, 1)
  ELSE FindDotted(bounds_str, 1)

\* ------------------------------------------------------------------------
\* parser.py: extract_properties_block
\* ------------------------------------------------------------------------
\* Optional values: None is <<>>, a value v is <<v>>
None == <<>>
Some(v) == <<v>>

PROPERTIES_TAG == <<":", "P", "R", "O", "P", "E", "R", "T", "I", "E", "S", ":">>
END_TAG == <<":", "E", "N", "D", ":">>
KEY_MODEL == <<":", "G", "P", "T", "E", "L", "_", "M", "O", "D", "E", "L", ":">>
KEY_BACKEND == <<":", "G", "P", "T", "E", "L", "_", "B", "A", "C", "K", "E", "N", "D", ":">>
KEY_SYSTEM == <<":", "G", "P", "T", "E", "L", "_", "S", "Y", "S", "T", "E", "M", ":">>
KEY_BOUNDS == <<":", "G", "P", "T", "E", "L", "_", "B", "O", "U", "N", "D", "S", ":">>
KEY_TOPIC == <<":", "G", "P", "T", "E", "L", "_", "T", "O", "P", "I", "C", ":">>

\* GptelProperties()
EmptyProps == [model |-> None, backend |-> None, system |-> None,
               bounds |-> None, topic |-> None]

\* glyph index of the last "\n" in the whitespace run s[p .. p+w-1], or 0
LastNewline(s, p, w) ==
  LET I == {k \in p..(p + w - 1) : s[k] = "\n"}
  IN IF I = {} THEN 0 ELSE SetMax(I)

\* re.search(r":PROPERTIES:\s*\n(.*?):END:", s, re.DOTALL), trying the
\* occurrences of the opening tag from glyph i on: the glyph range of group 1
\* and the glyph after the match
RECURSIVE SearchPropsBlock(_, _)
SearchPropsBlock(s, i) ==
  LET t == FindFrom(s, PROPERTIES_TAG, i)
      p == t + Len(PROPERTIES_TAG)
      q == LastNewline(s, p, SpaceRun(s, p))
      k == IF q > 0 THEN FindFrom(s, END_TAG, q + 1) ELSE 0
  IN IF t = 0 THEN [ok |-> FALSE, from |-> 0, to |-> 0, next |-> 0]
     ELSE IF k > 0 THEN [ok |-> TRUE, from |-> q + 1, to |-> k - 1,
                         next |-> k + Len(END_TAG)]
     ELSE SearchPropsBlock(s, t + 1)

\* line.split(":", 2)[2].strip() for a line that starts with key
PropValue(line, key) == Strip(SubSeq(line, Len(key) + 1, Len(line)))

\* the loop over the lines of props_text, from line i on
RECURSIVE PropsLoop(_, _, _)
PropsLoop(lines, i, props) ==
  IF i > Len(lines) THEN props
  ELSE LET line == Strip(lines[i])
       IN PropsLoop(lines, i + 1,
            IF StartsWith(line, KEY_MODEL)
            THEN [props EXCEPT !.model = Some(PropValue(line, KEY_MODEL))]
            ELSE IF StartsWith(line, KEY_BACKEND)
            THEN [props EXCEPT !.backend = Some(PropValue(line, KEY_BACKEND))]
            ELSE IF StartsWith(line, KEY_SYSTEM)
            THEN [props EXCEPT !.system = Some(PropValue(line, KEY_SYSTEM))]
            ELSE IF StartsWith(line, KEY_BOUNDS)
            THEN [props EXCEPT !.bounds =
                    Some(parse_gptel_bounds(PropValue(line, KEY_BOUNDS)))]
            ELSE IF StartsWith(line, KEY_TOPIC)
            THEN [props EXCEPT !.topic = Some(PropValue(line, KEY_TOPIC))]
            ELSE props)

\* extract_properties_block(content): the properties (start_pos is 0 at
\* both call sites, and neither uses the returned end position)
extract_properties_block(content) ==
  LET m == SearchPropsBlock(content, 1)
  IN IF ~m.ok THEN EmptyProps
     ELSE PropsLoop(SplitLines(SubSeq(content, m.from, m.to)), 1, EmptyProps)

\* ------------------------------------------------------------------------
\* parser.py: strip_org_formatting
\* ------------------------------------------------------------------------
\* ^ under re.MULTILINE at glyph i
AtLineStart(s, i) == i = 1 \/ s[i - 1] = "\n"

UPPER == <<"A", "B", "C", "D", "E", "F", "G", "H", "I", "J", "K", "L", "M",
           "N", "O", "P", "Q", "R", "S", "T", "U", "V", "W", "X", "Y", "Z">>
LOWER == <<"a", "b", "c", "d", "e", "f", "g", "h", "i", "j", "k", "l", "m",
           "n", "o", "p", "q", "r", "s", "t", "u", "v", "w", "x", "y", "z">>

\* the case folding of re.IGNORECASE
LowerGlyph(c) ==
  IF \E k \in 1..26 : UPPER[k] = c
  THEN LOWER[CHOOSE k \in 1..26 : UPPER[k] = c] ELSE c

LowerStr(s) == [k \in 1..Len(s) |-> LowerGlyph(s[k])]

\* where a match of r"^\*+\s+" (re.MULTILINE) that starts at glyph i ends
\* (the glyph after it), 0 when there is none
HeadlineEnd(s, i) ==
  LET n == IF AtLineStart(s, i) THEN RunOf(s, i, "*") ELSE 0
      w == IF n > 0 THEN SpaceRun(s, i + n) ELSE 0
  IN IF w > 0 THEN i + n + w ELSE 0

\* re.sub(r"^\*+\s+", "", text, flags=re.MULTILINE), scanning from glyph i
RECURSIVE SubHeadlines(_, _)
SubHeadlines(s, i) ==
  LET M == {k \in i..Len(s) : HeadlineEnd(s, k) > 0}
      k == SetMin(M)
  IN IF M = {} THEN SubSeq(s, i, Len(s))
     ELSE SubSeq(s, i, k - 1) \o SubHeadlines(s, HeadlineEnd(s, k))

\* where a match of open + r".*?" + close (re.DOTALL | re.IGNORECASE) that
\* starts at glyph i ends, or 0; low is LowerStr of the text, open and
\* close are literals in lower case
BlockEnd(low, open, close, i) ==
  LET k == IF StartsWithAt(low, i, open)
           THEN FindFrom(low, close, i + Len(open)) ELSE 0
  IN IF k > 0 THEN k + Len(close) ELSE 0

\* re.sub(open + r".*?" + close, "", text, flags=re.DOTALL | re.IGNORECASE)
RECURSIVE SubBlock(_, _, _, _, _)
SubBlock(s, low, open, close, i) ==
  LET M == {k \in i..Len(s) : BlockEnd(low, open, close, k) > 0}
      k == SetMin(M)
  IN IF M = {} THEN SubSeq(s, i, Len(s))
     ELSE SubSeq(s, i, k - 1)
            \o SubBlock(s, low, open, close, BlockEnd(low, open, close, k))

RESULTS_KEY == <<"#", "+", "R", "E", "S", "U", "L", "T", "S", ":">>

\* where a match of r"#\+RESULTS:.*?\n" that starts at glyph i ends, or 0
ResultsEnd(s, i) ==
  LET e == LET n == IndexFrom(s, "\n", i + Len(RESULTS_KEY))
           IN IF n = 0 THEN 0 ELSE n + 1
  IN IF StartsWithAt(s, i, RESULTS_KEY) THEN e ELSE 0

\* re.sub(r"#\+RESULTS:.*?\n", "", text), scanning from glyph i
RECURSIVE SubResults(_, _)
SubResults(s, i) ==
  LET M == {k \in i..Len(s) : ResultsEnd(s, k) > 0}
      k == SetMin(M)
  IN IF M = {} THEN SubSeq(s, i, Len(s))
     ELSE SubSeq(s, i, k - 1) \o SubResults(s, ResultsEnd(s, k))

\* first glyph index k >= i with s[k] = "]" and no "\n" in s[i .. k-1], or 0
BracketFrom(s, i) ==
  LET k == IndexFrom(s, "]", i)
      n == IndexFrom(s, "\n", i)
  IN IF k > 0 /\ (n = 0 \/ n > k) THEN k ELSE 0

\* in a match of r"\[\[.*?\]\[?(.*?)\]?\]" that starts at glyph i: the first
\* glyph of group 1, 0 when the match cannot get that far
OrgLinkGroup(s, i) ==
  LET j == IF StartsWithAt(s, i, <<"[", "[">>) THEN BracketFrom(s, i + 2) ELSE 0
  IN IF j = 0 THEN 0
     ELSE IF StartsWithAt(s, j + 1, <<"[">>) THEN j + 2 ELSE j + 1

\* the "]" that follows group 1, 0 when there is no match at i
OrgLinkClose(s, i) ==
  LET q == OrgLinkGroup(s, i) IN IF q = 0 THEN 0 ELSE BracketFrom(s, q)

\* where the match ends, or 0
OrgLinkEnd(s, i) ==
  LET k == OrgLinkClose(s, i)
  IN IF k = 0 THEN 0
     ELSE IF StartsWithAt(s, k + 1, <<"]">>) THEN k + 2 ELSE k + 1

\* re.sub(r"\[\[.*?\]\[?(.*?)\]?\]", r"\1", text), scanning from glyph i
RECURSIVE SubOrgLinks(_, _)
SubOrgLinks(s, i) ==
  LET M == {k \in i..Len(s) : OrgLinkEnd(s, k) > 0}
      k == SetMin(M)
  IN IF M = {} THEN SubSeq(s, i, Len(s))
     ELSE SubSeq(s, i, k - 1)
            \o SubSeq(s, OrgLinkGroup(s, k), OrgLinkClose(s, k) - 1)
            \o SubOrgLinks(s, OrgLinkEnd(s, k))

\* where a match of r"^:PROPERTIES:.*?:END:\s*" (DOTALL | MULTILINE) that
\* starts at glyph i ends, or 0
PropsBlockEnd(s, i) ==
  LET k == IF AtLineStart(s, i) /\ StartsWithAt(s, i, PROPERTIES_TAG)
           THEN FindFrom(s, END_TAG, i + Len(PROPERTIES_TAG)) ELSE 0
      e == k + Len(END_TAG)
  IN IF k > 0 THEN e + SpaceRun(s, e) ELSE 0

\* re.sub(r"^:PROPERTIES:.*?:END:\s*", "", text, flags=DOTALL | MULTILINE)
RECURSIVE SubPropsBlocks(_, _)
SubPropsBlocks(s, i) ==
  LET M == {k \in i..Len(s) : PropsBlockEnd(s, k) > 0}
      k == SetMin(M)
  IN IF M = {} THEN SubSeq(s, i, Len(s))
     ELSE SubSeq(s, i, k - 1) \o SubPropsBlocks(s, PropsBlockEnd(s, k))

\* glyph index of the end of the line holding glyph i (the "\n" or Len + 1)
LineEnd(s, i) ==
  LET n == IndexFrom(s, "\n", i) IN IF n = 0 THEN Len(s) + 1 ELSE n

\* where a match of r"^#\+.*$" (re.MULTILINE) that starts at glyph i ends,
\* or 0
DirectiveEnd(s, i) ==
  IF AtLineStart(s, i) /\ StartsWithAt(s, i, <<"#", "+">>) THEN LineEnd(s, i)
  ELSE 0

\* re.sub(r"^#\+.*$", "", text, flags=re.MULTILINE), scanning from glyph i
RECURSIVE SubDirectives(_, _)
SubDirectives(s, i) ==
  LET M == {k \in i..Len(s) : DirectiveEnd(s, k) > 0}
      k == SetMin(M)
  IN IF M = {} THEN SubSeq(s, i, Len(s))
     ELSE SubSeq(s, i, k - 1) \o SubDirectives(s, DirectiveEnd(s, k))

AT_USER == <<"@", "u", "s", "e", "r">>
AT_ASSISTANT == <<"@", "a", "s", "s", "i", "s", "t", "a", "n", "t">>

\* where a match of r"@(user|assistant)\s*" that starts at glyph i ends, or 0
RoleMarkerEnd(s, i) ==
  LET e == IF StartsWithAt(s, i, AT_USER) THEN i + Len(AT_USER)
           ELSE IF StartsWithAt(s, i, AT_ASSISTANT) THEN i + Len(AT_ASSISTANT)
           ELSE 0
  IN IF e > 0 THEN e + SpaceRun(s, e) ELSE 0

\* re.sub(r"@(user|assistant)\s*", "", text), scanning from glyph i
RECURSIVE SubRoleMarkers(_, _)
SubRoleMarkers(s, i) ==
  LET M == {k \in i..Len(s) : RoleMarkerEnd(s, k) > 0}
      k == SetMin(M)
  IN IF M = {} THEN SubSeq(s, i, Len(s))
     ELSE SubSeq(s, i, k - 1) \o SubRoleMarkers(s, RoleMarkerEnd(s, k))

\* where a match of r"\n{3,}" that starts at glyph i ends, or 0
BlankRunEnd(s, i) ==
  LET n == RunOf(s, i, "\n") IN IF n >= 3 THEN i + n ELSE 0

\* re.sub(r"\n{3,}", "\n\n", text), scanning from glyph i
RECURSIVE SubBlankLines(_, _)
SubBlankLines(s, i) ==
  LET M == {k \in i..Len(s) : BlankRunEnd(s, k) > 0}
      k == SetMin(M)
  IN IF M = {} THEN SubSeq(s, i, Len(s))
     ELSE SubSeq(s, i, k - 1) \o <<"\n", "\n">> \o SubBlankLines(s, BlankRunEnd(s, k))

\* re.sub(open + r".*?" + close, "", t, flags=re.DOTALL | re.IGNORECASE)
SubBlocks(t, open, close) == SubBlock(t, LowerStr(t), open, close, 1)

\* strip_org_formatting(text): the substitutions of lines 77-90 in order,
\* innermost first, then .strip()
strip_org_formatting(text) ==
  Strip(
    SubBlankLines(
      SubRoleMarkers(
        SubDirectives(
          SubPropsBlocks(
            SubOrgLinks(
              SubResults(
                SubBlocks(
                  SubBlocks(
                    SubBlocks(SubHeadlines(text, 1), BEGIN_SRC, END_SRC),
                    <<"#", "+", "b", "e", "g", "i", "n", "_", "q", "u", "o", "t", "e">>,
                    <<"#", "+", "e", "n", "d", "_", "q", "u", "o", "t", "e">>),
                  <<"#", "+", "b", "e", "g", "i", "n", "_", "e", "x", "a", "m", "p", "l", "e">>,
                  <<"#", "+", "e", "n", "d", "_", "e", "x", "a", "m", "p", "l", "e">>),
                1), 1), 1), 1), 1), 1))

\* ------------------------------------------------------------------------
\* parser.py: extract_messages_from_bounds
\* ------------------------------------------------------------------------
\* insertion of pair b into a list sorted by start, after every pair whose
\* start is not larger (sorted() is stable)
RECURSIVE InsertByStart(_, _)
InsertByStart(sorted, b) ==
  IF sorted = <<>> THEN <<b>>
  ELSE IF sorted[1][1] <= b[1] THEN <<sorted[1]>> \o InsertByStart(Tail(sorted), b)
  ELSE <<b>> \o sorted

\* SortByStart without the sorting: the markers in their input order
UnsortedBounds(bounds) == bounds

\* sorted(bounds, key=lambda x: x[0])
RECURSIVE SortByStart(_)
SortByStart(bounds) ==
  IF bounds = <<>> THEN <<>>
  ELSE InsertByStart(SortByStart(SubSeq(bounds, 1, Len(bounds) - 1)),
                     bounds[Len(bounds)])

\* Message(role, content, char_start, char_end)
Message(role, content, char_start, char_end) ==
  [role |-> role, content |-> content,
   char_start |-> char_start, char_end |-> char_end]

\* MessageIf without the "if text" test: a message is appended in any case
MessageAlways(role, text, char_start, char_end) ==
  <<Message(role, text, char_start, char_end)>>

\* "if text: messages.append(Message(role, text, char_start, char_end))"
MessageIf(role, text, char_start, char_end) ==
  IF text # <<>> THEN <<Message(role, text, char_start, char_end)>> ELSE <<>>

\* lines 109-121: the user message before a response, if any
UserBefore(content, current_pos, start) ==
  IF start > current_pos
  THEN MessageIf("user",
                 strip_org_formatting(PySlice(content, current_pos, start)),
                 current_pos, start)
  ELSE <<>>

\* lines 124-134: the assistant message of a (start, end)
AssistantAt(content, start, end) ==
  MessageIf("assistant", strip_org_formatting(PySlice(content, start, end)),
            start, end)

\* lines 139-152: the user message after the last response, if any
UserAfter(content, current_pos) ==
  IF current_pos < StrLen(content)
  THEN MessageIf("user",
                 strip_org_formatting(PySlice(content, current_pos, StrLen(content))),
                 current_pos, StrLen(content))
  ELSE <<>>

\* ExtractLoop without line 138: current_pos stays where it was
RECURSIVE ExtractLoopNoAdvance(_, _, _, _)
ExtractLoopNoAdvance(content, sorted_bounds, i, current_pos) ==
  IF i > Len(sorted_bounds)
  THEN UserAfter(content, current_pos)
  ELSE UserBefore(content, current_pos, sorted_bounds[i][1])
         \o AssistantAt(content, sorted_bounds[i][1], sorted_bounds[i][2])
         \o ExtractLoopNoAdvance(content, sorted_bounds, i + 1, current_pos)

\* the loop over sorted_bounds from pair i on, then the trailing user span
RECURSIVE ExtractLoop(_, _, _, _)
ExtractLoop(content, sorted_bounds, i, current_pos) ==
  IF i > Len(sorted_bounds)
  THEN UserAfter(content, current_pos)
  ELSE UserBefore(content, current_pos, sorted_bounds[i][1])
         \o AssistantAt(content, sorted_bounds[i][1], sorted_bounds[i][2])
         \o ExtractLoop(content, sorted_bounds, i + 1, sorted_bounds[i][2])

extract_messages_from_bounds(content, bounds) ==
  IF bounds = <<>> THEN <<>>
  ELSE ExtractLoop(content, SortByStart(bounds), 1, 0)

\* ------------------------------------------------------------------------
\* parser.py: find_top_level_sections, filter_bounds_for_section
\* ------------------------------------------------------------------------
\* HeadlineStarts with any number of stars before the space
HeadlineStartsAnyDepth(content) ==
  {i \in 1..Len(content) :
     /\ AtLineStart(content, i)
     /\ RunOf(content, i, "*") >= 1
     /\ StartsWithAt(content, i + RunOf(content, i, "*"), <<" ">>)
     /\ LineEnd(content, i) > i + RunOf(content, i, "*") + 1}

\* the glyph indices where r"^(\* .+)$" (re.MULTILINE) matches, ascending
HeadlineStarts(content) ==
  {i \in 1..Len(content) :
     /\ AtLineStart(content, i)
     /\ StartsWithAt(content, i, <<"*", " ">>)
     /\ LineEnd(content, i) > i + 2}

\* the k-th smallest element of a set of integers
RECURSIVE KthSmallest(_, _)
KthSmallest(S, k) ==
  LET m == SetMin(S)
  IN IF k = 1 THEN m ELSE KthSmallest(S \ {m}, k - 1)

\* find_top_level_sections without lines 186-187: every section runs to the
\* end of the document
find_top_level_sections_open_ends(content) ==
  LET H == HeadlineStarts(content)
      at(k) == KthSmallest(H, k)
      start_pos(k) == WidthSum(content, 1, at(k) - 1)
  IN [k \in 1..Cardinality(H) |->
        [title |-> Strip(SubSeq(content, at(k) + 2, LineEnd(content, at(k)) - 1)),
         start_pos |-> start_pos(k),
         end_pos |-> StrLen(content),
         topic |-> extract_properties_block(
                     PySlice(content, start_pos(k), StrLen(content))).topic]]

\* find_top_level_sections(content)
find_top_level_sections(content) ==
  LET H == HeadlineStarts(content)
      n == Cardinality(H)
      at(k) == KthSmallest(H, k)
      start_pos(k) == WidthSum(content, 1, at(k) - 1)
      end_pos(k) == IF k < n THEN start_pos(k + 1) ELSE StrLen(content)
  IN [k \in 1..n |->
        [title |-> Strip(SubSeq(content, at(k) + 2, LineEnd(content, at(k)) - 1)),
         start_pos |-> start_pos(k),
         end_pos |-> end_pos(k),
         topic |-> extract_properties_block(
                     PySlice(content, start_pos(k), end_pos(k))).topic]]

\* filter_bounds_for_section with partial overlap allowed
filter_bounds_overlapping(bounds, section_start, section_end) ==
  LET In(b) == b[1] < section_end /\ b[2] > section_start
  IN SelectSeq(bounds, In)

\* filter_bounds_for_section(bounds, section_start, section_end)
filter_bounds_for_section(bounds, section_start, section_end) ==
  LET In(b) == b[1] >= section_start /\ b[2] <= section_end
  IN SelectSeq(bounds, In)

\* AdjustBounds without the subtraction of lines 258-261
AdjustBoundsAbsolute(section_bounds, start_pos) == section_bounds

\* adjusted_bounds of parse_org_file
AdjustBounds(section_bounds, start_pos) ==
  [i \in 1..Len(section_bounds) |->
     <<section_bounds[i][1] - start_pos, section_bounds[i][2] - start_pos>>]

\* Conversation(topic, model, system_prompt, messages)
Conversation(topic, model, system_prompt, messages) ==
  [topic |-> topic, model |-> model, system_prompt |-> system_prompt,
   messages |-> messages]

\* "not x" for an Optional list or string: None or empty
Falsy(opt) == IF opt = None THEN TRUE ELSE opt[1] = <<>>

\* ------------------------------------------------------------------------
\* parser.py: parse_date_from_filename, parse_directory
\* ------------------------------------------------------------------------
DOT_ORG == <<".", "o", "r", "g">>

\* the characters of file names, in code point order
CHARSET == <<"-", ".">> \o DigitGlyph \o LOWER
CodePoint(c) == CHOOSE k \in 1..Len(CHARSET) : CHARSET[k] = c

\* a < b for two file names of one directory, as sorted() compares paths
RECURSIVE PathLess(_, _)
PathLess(a, b) ==
  IF b = <<>> THEN FALSE
  ELSE IF a = <<>> THEN TRUE
  ELSE IF Head(a) # Head(b) THEN CodePoint(Head(a)) < CodePoint(Head(b))
  ELSE PathLess(Tail(a), Tail(b))

\* sorted(directory.glob("*.org")): the files whose name ends in ".org",
\* ascending by name
RECURSIVE SortedPaths(_)
SortedPaths(files) ==
  IF files = {} THEN <<>>
  ELSE LET f == CHOOSE x \in files :
                  \A y \in files \ {x} : PathLess(x.name, y.name)
       IN <<f>> \o SortedPaths(files \ {f})

GlobOrg(files) ==
  {f \in files : Len(f.name) >= 4
                 /\ SubSeq(f.name, Len(f.name) - 3, Len(f.name)) = DOT_ORG}

\* the days of a month, as datetime.date checks them
DaysInMonth(y, m) ==
  IF m = 2
  THEN (IF (y % 4 = 0 /\ y % 100 # 0) \/ y % 400 = 0 THEN 29 ELSE 28)
  ELSE IF m \in {4, 6, 9, 11} THEN 30 ELSE 31

\* re.match(r"(\d{4})-(\d{2})-(\d{2})\.org$", name); "$" matches at the
\* end and before a newline that ends the name
DateMatch(name) ==
  /\ \/ Len(name) = 14
     \/ Len(name) = 15 /\ name[15] = "\n"
  /\ \A k \in {1, 2, 3, 4, 6, 7, 9, 10} : IsDigit(name[k])
  /\ name[5] = "-" /\ name[8] = "-"
  /\ SubSeq(name, 11, 14) = DOT_ORG

\* parse_date_from_filename(filepath): None, a date, or the ValueError that
\* date() raises for a year, month or day out of range
parse_date_from_filename(name) ==
  IF ~DateMatch(name) THEN [raises |-> FALSE, date |-> None]
  ELSE LET y == StrToInt(SubSeq(name, 1, 4))
           m == StrToInt(SubSeq(name, 6, 7))
           d == StrToInt(SubSeq(name, 9, 10))
       IN IF y >= 1 /\ m \in 1..12 /\ d >= 1 /\ d <= DaysInMonth(y, m)
          THEN [raises |-> FALSE, date |-> Some(<<y, m, d>>)]
          ELSE [raises |-> TRUE, date |-> None]

\* parse_org_file(filepath) raises at lines 215-216: the file cannot be read,
\* or its name holds an impossible date
Raises(f) == ~f.readable \/ parse_date_from_filename(f.name).raises

\* the conversations of one file as parse_directory collects them, with
\* file_path and date
RECURSIVE FileConversations(_, _, _)
FileConversations(name, convs, i) ==
  IF i > Len(convs) THEN <<>>
  ELSE <<[file_path |-> name, date |-> parse_date_from_filename(name).date,
          conversation |-> convs[i]]>>
         \o FileConversations(name, convs, i + 1)

\* ------------------------------------------------------------------------
\* Inputs
\* ------------------------------------------------------------------------
\* bounds of the small inputs: conversations per call, messages per call
MaxConvs == 2
MaxMsgs == 2
\* bound of the Scenario D inputs: the topic is 'x' * t for t in 0..MaxTopicLen
MaxTopicLen == 200
\* bound of the long-document inputs: the first user message is lengthened
\* by d characters for d in 0..MaxPad
MaxPad == 3

UserMsg(content) == [role |-> "user", content |-> content]
AssistantMsg(content) == [role |-> "assistant", content |-> content]

\* the message dicts the small inputs are made of
MsgOptions ==
  { UserMsg(<<"H", "i">>),
    AssistantMsg(<<"a", "b">>),
    AssistantMsg(<<"#", " ", BT, "c", BT>>) }

\* all sequences over S of length at most n
SeqsUpTo(S, n) == UNION {[1..k -> S] : k \in 0..n}

\* conversations of at most m messages as main builds them: the topic is
\* make_topic(messages)
SmallConvs(m) ==
  {[topic |-> make_topic(ms), messages |-> ms] : ms \in SeqsUpTo(MsgOptions, m)}

\* the lists of at most k conversations that hold at most m messages in all
RECURSIVE ConvLists(_, _)
ConvLists(k, m) ==
  IF k = 0 THEN {<<>>}
  ELSE {<<>>} \cup UNION {{<<c>> \o rest : rest \in ConvLists(k - 1, m - Len(c.messages))} :
                           c \in SmallConvs(m)}

\* the messages of all conversations, in order
RECURSIVE MessagesOf(_)
MessagesOf(convs) ==
  IF convs = <<>> THEN <<>>
  ELSE Head(convs).messages \o MessagesOf(Tail(convs))

SmallInputs == ConvLists(MaxConvs, MaxMsgs)

\* Scenario D: one conversation holding one responder message whose
\* rendered content has length 500
ScenarioDInputs ==
  {<<[topic |-> Fill(t), messages |-> <<AssistantMsg(Fill(500))>>]>> :
     t \in 0..MaxTopicLen}

\* a user message of n + 2 characters whose first line is "Q"
PadMsg(n) == UserMsg(<<"Q", "\n">> \o Fill(n))

\* long documents: five one-character responder messages, separated by user
\* messages that place them just below 10^3, 10^4, 10^5, 10^6 and 10^7
LongPads == <<818, 8973, 89973, 899973, 8999973>>
LongMsgs(d) ==
  <<PadMsg(LongPads[1] + d), AssistantMsg(<<"a">>),
    PadMsg(LongPads[2]), AssistantMsg(<<"b">>),
    PadMsg(LongPads[3]), AssistantMsg(<<"c">>),
    PadMsg(LongPads[4]), AssistantMsg(<<"d">>),
    PadMsg(LongPads[5]), AssistantMsg(<<"e">>)>>
\* the same with the last responder one character earlier: the tenth
\* iteration changes the string but not its length
ElevenMsgs == [LongMsgs(0) EXCEPT ![9] = PadMsg(LongPads[5] - 1)]
LongInputs ==
  {<<[topic |-> make_topic(LongMsgs(d)), messages |-> LongMsgs(d)]>> :
     d \in 0..MaxPad}
    \cup {<<[topic |-> make_topic(ElevenMsgs), messages |-> ElevenMsgs]>>}


\* bounds of the annotated documents: segments per document
MaxSegments == 2
\* bound of the raw marker strings: tokens per string
MaxTokens == 3

\* the text every segment ends with: a question, then a response "rr"
SEGMENT_TEXT == <<"q", "\n", "r", "r", "\n">>

\* a segment of a document, by kind: a section, a section with its own
\* property block, or text without a heading
SegmentText(kind) ==
  CASE kind = "A" -> <<"*", " ", "A", "\n">> \o SEGMENT_TEXT
    [] kind = "B" -> <<"*", " ", "B", "\n">> \o PROPERTIES_LINE
                       \o GPTEL_TOPIC_KEY \o <<"t", "b", "\n">>
                       \o <<":", "E", "N", "D", ":", "\n">> \o SEGMENT_TEXT
    [] kind = "P" -> SEGMENT_TEXT

\* the marker a segment of length n carries, relative to the segment:
\* around its response, reversed, or running into what follows
SegmentMarker(marker, n) ==
  CASE marker = "good" -> <<<<n - 3, n - 1>>>>
    [] marker = "reversed" -> <<<<n - 1, n - 3>>>>
    [] marker = "straddle" -> <<<<n - 3, n + 2>>>>
    [] marker = "none" -> <<>>

Segments ==
  [kind : {"A", "B", "P"},
   marker : {"good", "reversed", "straddle", "none"}]

\* the text of segments i.. of a body
RECURSIVE BodyText(_, _)
BodyText(segs, i) ==
  IF i > Len(segs) THEN <<>>
  ELSE SegmentText(segs[i].kind) \o BodyText(segs, i + 1)

\* the markers of segments i.. of a body that starts at offset at
RECURSIVE BodyMarkers(_, _, _)
BodyMarkers(segs, i, at) ==
  IF i > Len(segs) THEN <<>>
  ELSE LET n == StrLen(SegmentText(segs[i].kind))
           m == SegmentMarker(segs[i].marker, n)
       IN [k \in 1..Len(m) |-> <<m[k][1] + at, m[k][2] + at>>]
            \o BodyMarkers(segs, i + 1, at + n)

\* a list of markers moved by d
Shift(bounds, d) ==
  [i \in 1..Len(bounds) |-> <<bounds[i][1] + d, bounds[i][2] + d>>]

\* " ".join(f"({s} . {e})" ...), from pair i on
RECURSIVE DottedPairs(_, _)
DottedPairs(pairs, i) ==
  IF i > Len(pairs) THEN <<>>
  ELSE (IF i > 1 THEN <<" ">> ELSE <<>>)
         \o <<"(">> \o IntToStr(pairs[i][1]) \o <<" ", ".", " ">>
         \o IntToStr(pairs[i][2]) \o <<")">>
         \o DottedPairs(pairs, i + 1)

\* the value of GPTEL_BOUNDS in either of the two encodings
MarkerString(format, pairs) ==
  IF format = "tagged"
  THEN (IF pairs = <<>> THEN PLACEHOLDER ELSE EncodeBounds(pairs))
  ELSE <<"(">> \o DottedPairs(pairs, 1) \o <<")">>

\* the longest file-level property block of the annotated documents
MaxHead == 120

\* a document whose file-level property block holds the markers of its
\* segments as zero-based offsets into the document
AnnotatedDoc(format, segs) ==
  LET head(h) == Props(MarkerString(format, BodyMarkers(segs, 1, h)))
      h == CHOOSE k \in StrLen(head(0))..MaxHead : StrLen(head(k)) = k
  IN head(h) \o BodyText(segs, 1)

\* a document whose file-level property block holds the given markers,
\* which are relative to the start of the body
MarkedDoc(body, marks) ==
  LET head(h) == Props(MarkerString("tagged", Shift(marks, h)))
      h == CHOOSE k \in StrLen(head(0))..MaxHead : StrLen(head(k)) = k
  IN head(h) \o body

\* a section all of whose text is a role marker
SECTION_AT_USER == <<"*", " ", "@", "u", "s", "e", "r", "\n">>

\* Scenario C: two sections and one marker within the second one: around
\* all of it, around its question, around its response, around the newline
\* between the two, around the newline at its end, and around the role
\* marker of a section that holds nothing else
ScenarioCDocs ==
  {MarkedDoc(SegmentText("A") \o SegmentText("A"), <<m>>) :
     m \in {<<9, 18>>, <<13, 14>>, <<15, 17>>, <<14, 15>>, <<17, 18>>}}
    \cup {MarkedDoc(SegmentText("A") \o SECTION_AT_USER, <<<<11, 16>>>>)}

\* a section without a property block whose subsection has one with a topic
SECTION_SUBTOPIC ==
  <<"*", " ", "A", "\n", "q", "\n", "*", "*", " ", "s", "\n">>
    \o PROPERTIES_LINE \o GPTEL_TOPIC_KEY \o <<"t", "b", "\n">>
    \o <<":", "E", "N", "D", ":", "\n", "r", "r", "\n">>

\* a section whose property block has a topic property without a value
SECTION_NOTOPIC ==
  <<"*", " ", "A", "\n">> \o PROPERTIES_LINE \o GPTEL_TOPIC_KEY \o <<"\n">>
    \o <<":", "E", "N", "D", ":", "\n">> \o SEGMENT_TEXT

\* documents of one section with a marker around its response
TopicDocs ==
  {MarkedDoc(s, <<<<StrLen(s) - 3, StrLen(s) - 1>>>>) :
     s \in {SECTION_SUBTOPIC, SECTION_NOTOPIC}}

\* a document without a heading whose only text is an empty line, with a
\* marker around it
BLANK_DOC == MarkedDoc(<<"\n">>, <<<<0, 1>>>>)

\* lines that look like headings: one star and one space, one star and two
\* spaces, two stars, no space, an indented star, a star and spaces only, a
\* star and one space only
HeadingLines ==
  { <<"*", " ", "A", "\n">>,
    <<"*", " ", " ", "A", "\n">>,
    <<"*", "*", " ", "A", "\n">>,
    <<"*", "A", "\n">>,
    <<" ", "*", " ", "A", "\n">>,
    <<"*", " ", " ", "\n">>,
    <<"*", " ", "\n">> }

\* documents of two such lines, a question after the first and a response
\* with its marker after the second
HeadingDocs ==
  {MarkedDoc(a \o <<"q", "\n">> \o b \o <<"r", "r", "\n">>,
             <<<<StrLen(a \o b) + 2, StrLen(a \o b) + 4>>>>) :
     a \in HeadingLines, b \in HeadingLines}

\* documents of two sections and one marker that is empty or reversed: at
\* the boundary of the sections, from the second section back into the
\* first, from the start of the second back into the first, and within the
\* second
SpanDocs ==
  {MarkedDoc(SegmentText("A") \o SegmentText("A"), <<m>>) :
     m \in {<<9, 9>>, <<15, 6>>, <<9, 7>>, <<17, 15>>}}

\* lines joined with eol
RECURSIVE JoinWith(_, _)
JoinWith(lines, eol) ==
  IF Len(lines) = 1 THEN lines[1]
  ELSE lines[1] \o eol \o JoinWith(Tail(lines), eol)

\* text with every "\n" written as eol
WithLineEnds(text, eol) == JoinWith(SplitLines(text), eol)

\* files whose lines end in "\r" or "\r\n": documents of one and of two
\* sections and one without a heading, with markers that are offsets into
\* the text as it is read; two sections with markers that are offsets into
\* the file as it is stored; and a "\r" in front of a headline
CrDocs ==
  {WithLineEnds(d, eol) :
     d \in {AnnotatedDoc("tagged", <<[kind |-> "A", marker |-> "good"]>>),
            AnnotatedDoc("tagged", <<[kind |-> "A", marker |-> "good"],
                                     [kind |-> "B", marker |-> "good"]>>),
            AnnotatedDoc("tagged", <<[kind |-> "P", marker |-> "good"]>>)},
     eol \in {<<"\r">>, <<"\r", "\n">>}}
    \cup {WithLineEnds(Props(MarkerString("tagged", <<<<74, 76>>, <<86, 88>>>>))
                         \o SegmentText("A") \o SegmentText("A"),
                       <<"\r", "\n">>)}
    \cup {MarkedDoc(<<"a", "\r">> \o SegmentText("A"), <<<<8, 10>>>>)}

\* a document whose file-level property block has no GPTEL_BOUNDS
MODEL_BLOCK ==
  PROPERTIES_LINE \o KEY_MODEL \o <<" ", "m", "\n">> \o END_BLOCK

\* a document whose GPTEL_BOUNDS holds no pair
JUNK_BLOCK == Props(<<"j", "u", "n", "k">>)

Bodies == SeqsUpTo(Segments, MaxSegments)

Documents ==
  {AnnotatedDoc(f, b) : f \in {"tagged", "dotted"}, b \in Bodies}
    \cup {h \o BodyText(b, 1) : h \in {<<>>, MODEL_BLOCK, JUNK_BLOCK}, b \in Bodies}
    \cup ScenarioCDocs \cup TopicDocs \cup {BLANK_DOC} \cup HeadingDocs
    \cup SpanDocs \cup CrDocs

\* the pieces raw marker strings are made of
Tokens ==
  { <<"(", "1", " ", "2", "0", ")">>,
    <<"(", "3", " ", ".", " ", "4", ")">>,
    <<"(", "5", ".", "6", ")">>,
    RESPONSE,
    <<"(">>,
    <<")">>,
    <<" ">> }

\* the concatenation of a sequence of strings
RECURSIVE Concat(_)
Concat(ss) == IF ss = <<>> THEN <<>> ELSE Head(ss) \o Concat(Tail(ss))

RawStrings ==
  {Concat(ts) : ts \in SeqsUpTo(Tokens, MaxTokens)}
    \cup { <<"(", "(", "1", "0", " ", ".", " ", "2", "0", ")", ")">>,
           EncodeBounds(<<<<10, 20>>, <<30, 40>>>>) }
    \cup {<<"(", "1", w, "2", ")", " ", "(", "3", w, ".", w, w, "4", ")">> :
            w \in {VT, FS, GS, RS, US, NEL, NBSP}}

\* bound of the extractor's buffers: pieces per buffer
MaxPieces == 3

\* a piece of a buffer: its text, and the marker it carries
Pieces ==
  [text : {<<"a", "b">>, <<" ">>, <<"*", " ">>},
   marker : {"none", "cover", "wide"}]

\* the marker of a piece of n characters that starts at offset at: none,
\* around the piece, or one character into what follows
PieceMarker(marker, at, n) ==
  CASE marker = "none" -> <<>>
    [] marker = "cover" -> <<<<at, at + n>>>>
    [] marker = "wide" -> <<<<at, at + n + 1>>>>

\* the text of pieces i.. of a buffer
RECURSIVE PieceText(_, _)
PieceText(ps, i) ==
  IF i > Len(ps) THEN <<>> ELSE ps[i].text \o PieceText(ps, i + 1)

\* the markers of pieces i.. of a buffer whose piece i starts at offset at
RECURSIVE PieceMarkers(_, _, _)
PieceMarkers(ps, i, at) ==
  IF i > Len(ps) THEN <<>>
  ELSE PieceMarker(ps[i].marker, at, StrLen(ps[i].text))
         \o PieceMarkers(ps, i + 1, at + StrLen(ps[i].text))

Reverse(seq) == [k \in 1..Len(seq) |-> seq[Len(seq) + 1 - k]]
Rotate(seq) == IF seq = <<>> THEN <<>> ELSE Tail(seq) \o <<Head(seq)>>

\* Scenario A: "Question:\nHello\nAI Response:\nHi there\n"; "Hi there" is
\* at offsets 29..37
SCENARIO_A ==
  <<"Q", "u", "e", "s", "t", "i", "o", "n", ":", "\n",
    "H", "e", "l", "l", "o", "\n",
    "A", "I", " ", "R", "e", "s", "p", "o", "n", "s", "e", ":", "\n",
    "H", "i", " ", "t", "h", "e", "r", "e", "\n">>
HI_THERE == <<<<29, 37>>>>

PieceBodies == SeqsUpTo(Pieces, MaxPieces)

\* a literal, quote or example block around one line
BlockAround(kind, line) ==
  <<"#", "+", "b", "e", "g", "i", "n", "_">> \o kind
    \o (IF kind = <<"s", "r", "c">> THEN <<" ", "p", "y", "t", "h", "o", "n">>
        ELSE <<>>)
    \o <<"\n">> \o line \o <<"\n", "#", "+", "e", "n", "d", "_">> \o kind
    \o <<"\n">>

BlockKinds ==
  { <<"s", "r", "c">>, <<"q", "u", "o", "t", "e">>,
    <<"e", "x", "a", "m", "p", "l", "e">> }

\* buffers of a question with a block and a response with a block, the
\* marker around the response
BlockInputs ==
  {[buffer |-> <<"q", "\n">> \o BlockAround(k, <<"x">>)
                 \o <<"r", "\n">> \o BlockAround(k, <<"y">>),
    markers |-> <<<<StrLen(<<"q", "\n">> \o BlockAround(k, <<"x">>)),
                   2 * StrLen(<<"q", "\n">> \o BlockAround(k, <<"x">>))>>>>] :
     k \in BlockKinds}

\* the arguments of extract_messages_from_bounds: buffers with the markers
\* of their pieces in order, reversed and rotated, buffers with one marker
\* that spans them, Scenario A, buffers with blocks, and buffers with the
\* whitespace characters that have no escape
ExtractInputs ==
  {[buffer |-> PieceText(ps, 1), markers |-> PieceMarkers(ps, 1, 0)] :
     ps \in PieceBodies}
    \cup {[buffer |-> PieceText(ps, 1),
           markers |-> Reverse(PieceMarkers(ps, 1, 0))] : ps \in PieceBodies}
    \cup {[buffer |-> PieceText(ps, 1),
           markers |-> Rotate(PieceMarkers(ps, 1, 0))] : ps \in PieceBodies}
    \cup {[buffer |-> PieceText(ps, 1),
           markers |-> <<<<0, StrLen(PieceText(ps, 1))>>>>] : ps \in PieceBodies}
    \cup {[buffer |-> SCENARIO_A, markers |-> HI_THERE]}
    \cup BlockInputs
    \cup {[buffer |-> <<w, "a", w, "b", w>>, markers |-> <<<<2, 5>>>>] :
            w \in {VT, FS, GS, RS, US, NEL, NBSP}}

\* bound of the conversation texts of the CSV: lines per text
MaxLines == 3

\* the lines conversation texts are made of
CsvLines ==
  { QUESTION, AI_RESPONSE \o <<" ">>, <<"H", "i">>, <<"*", " ", "x">> }

\* the Conversation column of a CSV row: lines joined by "\n", and
\* Scenario A with "\r\n" line ends
CsvTexts ==
  {JoinLines(ls) : ls \in SeqsUpTo(CsvLines, MaxLines)}
    \cup {SCENARIO_A,
          QUESTION \o <<"\r", "\n">> \o <<"H", "e", "l", "l", "o">>
            \o <<"\r", "\n">> \o AI_RESPONSE \o <<"\r", "\n">>
            \o <<"H", "i", " ", "t", "h", "e", "r", "e">>}

\* main, lines 180-186: a row whose text holds a message becomes a
\* conversation
CsvConversation(msgs) == [topic |-> make_topic(msgs), messages |-> msgs]

CsvInputs ==
  {<<CsvConversation(parse_conversation(t))>> : t \in CsvTexts}
    \ {<<CsvConversation(<<>>)>>}

\* the files of a directory: two dated names, a name whose date does not
\* exist, an undated name and a name that is not "*.org"
NAME_JAN == <<"2", "0", "2", "5", "-", "0", "1", "-", "0", "8", ".", "o", "r", "g">>
NAME_FEB == <<"2", "0", "2", "5", "-", "0", "2", "-", "3", "0", ".", "o", "r", "g">>
NAME_NOTES == <<"n", "o", "t", "e", "s", ".", "o", "r", "g">>
NAME_TXT == <<"n", "o", "t", "e", "s", ".", "t", "x", "t">>

\* documents of one conversation, of two conversations and of none
DOC_ONE == AnnotatedDoc("tagged", <<[kind |-> "A", marker |-> "good"]>>)
DOC_TWO == AnnotatedDoc("tagged", <<[kind |-> "A", marker |-> "good"],
                                    [kind |-> "B", marker |-> "good"]>>)
DOC_NONE == MODEL_BLOCK \o SegmentText("A")

\* a file: readable with a content, or one whose read_text raises
FileOptions(name, contents) ==
  {[name |-> name, readable |-> TRUE, content |-> c] : c \in contents}
    \cup {[name |-> name, readable |-> FALSE, content |-> <<>>]}

\* a directory holds at most one file of each name
Directories ==
  {a \cup b \cup c \cup d :
     a \in {{}} \cup {{f} : f \in FileOptions(NAME_JAN, {DOC_ONE, DOC_TWO, DOC_NONE})},
     b \in {{}} \cup {{f} : f \in FileOptions(NAME_FEB, {DOC_ONE})},
     c \in {{}} \cup {{f} : f \in FileOptions(NAME_NOTES, {DOC_ONE, DOC_TWO, DOC_NONE})},
     d \in {{}, {[name |-> NAME_TXT, readable |-> TRUE, content |-> DOC_ONE]}}}

\* bound of the markdown texts: lines per text
MaxMdLines == 3

\* the lines markdown texts are made of: a heading, a line of 7 "#" that
\* is no heading, a line that is a heading outside a fence, fences with
\* and without a language and an indented fence
MdLines ==
  { <<"#", "#", " ", "T", "i", "t", "l", "e">>,
    <<"#", "#", "#", "#", "#", "#", "#", " ", "T">>,
    <<"#", " ", "c">>,
    FENCE \o <<"p", "y", "t", "h", "o", "n">>,
    FENCE,
    <<" ">> \o FENCE \o <<" ">> }

\* Scenario E
SCENARIO_E ==
  JoinLines(<< <<"#", "#", " ", "T", "i", "t", "l", "e">>, <<>>,
               FENCE \o <<"p", "y", "t", "h", "o", "n">>,
               <<"p", "r", "i", "n", "t", "(", "1", ")">>, FENCE >>)

\* texts of at most MaxMdLines lines, a heading of each level with one
\* and with two spaces, Scenario E
MarkdownInputs ==
  {JoinLines(ls) : ls \in SeqsUpTo(MdLines, MaxMdLines) \ {<<>>}}
    \cup {Rep("#", k) \o Rep(" ", n) \o <<"T">> : k \in 1..7, n \in 1..2}
    \cup {SCENARIO_E}

BuildInputs ==
  SmallInputs \cup ScenarioDInputs \cup LongInputs \cup CsvInputs

\* the lines main prints: line 178, line 197 and line 199
Skipped == [line |-> "skipped"]
Written(n) == [line |-> "written", conversations |-> n]
Converted(n, m) == [line |-> "converted", conversations |-> n, files |-> m]
IsWritten(l) == l.line = "written"

\* bounds of the runs of main: dates with conversations, rows with a bad
\* date, rows without a message
MaxDays == 2
MaxOther == 1

\* the conversations of a date: Scenario A, and Scenario A followed by a
\* conversation of one question
MainDays ==
  { <<CsvConversation(parse_conversation(SCENARIO_A))>>,
    <<CsvConversation(parse_conversation(SCENARIO_A)),
      CsvConversation(parse_conversation(QUESTION \o <<"\n", "H", "i">>))>> }

\* the conversation lists of one date that main builds from rows: the list
\* is not empty, every conversation holds a message (line 181) and has the
\* topic make_topic gives it (line 185), and every Conversation field is
\* shorter than the field limit of csv (line 170). Among them is the
\* responder-only message of Scenario D, whose topic is "Conversation"
MainLists ==
  {cs \in SmallInputs \cup CsvInputs :
     cs # <<>> /\ \A k \in 1..Len(cs) : cs[k].messages # <<>>}
    \cup {<<CsvConversation(<<AssistantMsg(Fill(500))>>)>>}

\* main after its rows are grouped: what it has printed, the conversation
\* lists of by_date in the order of their dates, and the number of rows.
\* The runs of one date have a row per conversation; the runs of several
\* dates have rows with a bad date and rows without message
MainInputs ==
  {[stdout |-> <<>>, pending |-> <<cs>>, rows |-> Len(cs)] : cs \in MainLists}
    \cup {[stdout |-> [k \in 1..b |-> Skipped],
           pending |-> ds,
           rows |-> b + e + Len(Concat(ds))] :
            b \in 0..MaxOther, e \in 0..MaxOther,
            ds \in SeqsUpTo(MainDays, MaxDays)}

\* ------------------------------------------------------------------------
\* State
\* ------------------------------------------------------------------------
VARIABLES
  pc,             \* where the program is
  conversations,  \* build_org_file: its argument
  ci, mi,         \* build_org_file: the conversation and message being written
  body,           \* build_org_file: body
  ai_positions,   \* build_org_file: ai_positions
  bounds_str,     \* build_org_file: bounds_str
  new_bounds,     \* build_org_file: new_bounds of the latest iteration
  iter,           \* build_org_file: iterations of the loop started so far
  exit,           \* build_org_file: how the loop was left
  result,         \* build_org_file: the returned document
  stdout,         \* main: what it has printed
  pending,        \* main: the conversation lists of by_date not yet written
  rows,           \* main: len(rows)
  caller,         \* build_org_file: who called it, main or no one
  file,           \* the content of the .org file
  file_props,     \* parse_org_file: file_props
  sections,       \* parse_org_file: sections
  si,             \* parse_org_file: the section being processed
  calls,          \* parse_org_file: its calls of extract_messages_from_bounds
  parsed,         \* parse_org_file: conversations
  raw,            \* parse_gptel_bounds: its argument
  decoded,        \* parse_gptel_bounds: the returned list
  buffer,         \* extract_messages_from_bounds: content
  markers,        \* extract_messages_from_bounds: bounds
  ext_messages,   \* extract_messages_from_bounds: the returned list
  org_text,       \* markdown_to_org: the returned text
  directory,      \* parse_directory: the files of the directory
  queue,          \* parse_directory: the files still to be parsed, in order
  filepath,       \* parse_directory: the file being parsed
  dir_result,     \* parse_directory: conversations
  errors          \* parse_directory: the errors it has printed

vars == <<pc, conversations, ci, mi, body, ai_positions, bounds_str,
          new_bounds, iter, exit, result, stdout, pending, rows, caller,
          file,
          file_props, sections,
          si, calls, parsed, raw, decoded, buffer, markers, ext_messages,
          org_text, directory, queue, filepath, dir_result, errors>>

mainVars == <<stdout, pending, rows, caller>>

parseVars == <<file_props, sections, si, calls, parsed>>

decodeVars == <<raw, decoded>>

extractVars == <<buffer, markers, ext_messages, org_text>>

dirVars == <<directory, queue, filepath, dir_result, errors>>

buildVars == <<conversations, ci, mi, body, ai_positions, bounds_str,
               new_bounds, iter, exit, result>>

\* the locals of build_org_file, parse_org_file and parse_gptel_bounds
\* before they are called
BuildIdle ==
  /\ ci = 1
  /\ mi = 0
  /\ body = <<>>
  /\ ai_positions = <<>>
  /\ bounds_str = <<>>
  /\ new_bounds = <<>>
  /\ iter = 0
  /\ exit = "none"
  /\ result = <<>>

\* main is not running
MainIdle ==
  /\ stdout = <<>>
  /\ pending = <<>>
  /\ rows = 0
  /\ caller = "none"

ParseIdle ==
  /\ file_props = EmptyProps
  /\ sections = <<>>
  /\ si = 1
  /\ calls = <<>>
  /\ parsed = <<>>

DecodeIdle == decoded = <<>>

ExtractIdle == ext_messages = <<>> /\ org_text = <<>>

DirIdle ==
  /\ queue = <<>>
  /\ filepath = None
  /\ dir_result = <<>>
  /\ errors = <<>>

\* main, lines 166-193: the rows are read and grouped by date, a row with
\* a bad date has been reported, and the files are about to be written;
\* the file written last is parsed afterwards
InitMain ==
  /\ pc = "files"
  /\ \E m \in MainInputs :
       /\ stdout = m.stdout
       /\ pending = m.pending
       /\ rows = m.rows
  /\ caller = "main"
  /\ conversations = <<>>
  /\ file = <<>>
  /\ raw = <<>>
  /\ buffer = <<>> /\ markers = <<>>
  /\ directory = {}
  /\ BuildIdle /\ ParseIdle /\ DecodeIdle /\ ExtractIdle /\ DirIdle

\* build_org_file, lines 102-110: the function is called on its own with a
\* list of conversation dicts, main is not running; its argument may be
\* empty, hold a conversation without messages or any topic, and is not
\* limited in length
InitBuild ==
  /\ pc = "phase1"
  /\ conversations \in BuildInputs
  /\ file = <<>>
  /\ raw = <<>>
  /\ buffer = <<>> /\ markers = <<>>
  /\ directory = {}
  /\ BuildIdle /\ MainIdle /\ ParseIdle /\ DecodeIdle /\ ExtractIdle /\ DirIdle

\* parse_org_file is about to be called on an annotated document
InitParse ==
  /\ pc = "parse"
  /\ conversations = <<>>
  /\ file \in Documents
  /\ raw = <<>>
  /\ buffer = <<>> /\ markers = <<>>
  /\ directory = {}
  /\ BuildIdle /\ MainIdle /\ ParseIdle /\ DecodeIdle /\ ExtractIdle /\ DirIdle

\* parse_gptel_bounds is about to be called on a raw string
InitDecode ==
  /\ pc = "decode"
  /\ conversations = <<>>
  /\ file = <<>>
  /\ raw \in RawStrings
  /\ buffer = <<>> /\ markers = <<>>
  /\ directory = {}
  /\ BuildIdle /\ MainIdle /\ ParseIdle /\ DecodeIdle /\ ExtractIdle /\ DirIdle

\* extract_messages_from_bounds is about to be called on a buffer and markers
InitExtract ==
  /\ pc = "extract"
  /\ conversations = <<>>
  /\ file = <<>>
  /\ raw = <<>>
  /\ \E x \in ExtractInputs : buffer = x.buffer /\ markers = x.markers
  /\ directory = {}
  /\ BuildIdle /\ MainIdle /\ ParseIdle /\ DecodeIdle /\ ExtractIdle /\ DirIdle

\* markdown_to_org is about to be called on a text
InitMarkdown ==
  /\ pc = "markdown"
  /\ conversations = <<>>
  /\ file = <<>>
  /\ raw = <<>>
  /\ buffer \in MarkdownInputs /\ markers = <<>>
  /\ directory = {}
  /\ BuildIdle /\ MainIdle /\ ParseIdle /\ DecodeIdle /\ ExtractIdle /\ DirIdle

\* parse_directory is about to be called on a directory
InitDir ==
  /\ pc = "dir"
  /\ conversations = <<>>
  /\ file = <<>>
  /\ raw = <<>>
  /\ buffer = <<>> /\ markers = <<>>
  /\ directory \in Directories
  /\ BuildIdle /\ MainIdle /\ ParseIdle /\ DecodeIdle /\ ExtractIdle /\ DirIdle

\* main, lines 193-195: the next date of by_date, build_org_file is called
\* with its conversations
MainNextFile ==
  /\ pc = "files"
  /\ pending # <<>>
  /\ conversations' = Head(pending)
  /\ pending' = Tail(pending)
  /\ ci' = 1
  /\ mi' = 0
  /\ body' = <<>>
  /\ ai_positions' = <<>>
  /\ bounds_str' = <<>>
  /\ new_bounds' = <<>>
  /\ iter' = 0
  /\ exit' = "none"
  /\ result' = <<>>
  /\ pc' = "phase1"
  /\ UNCHANGED <<stdout, rows, caller, file, parseVars, decodeVars,
                 extractVars, dirVars>>

\* ------------------------------------------------------------------------
\* build_org_file, Phase 1
\* ------------------------------------------------------------------------
\* lines 113-119: the heading and property block of the next conversation
BuildHeading ==
  /\ pc = "phase1"
  /\ ci <= Len(conversations)
  /\ mi = 0
  /\ body' = body \o ConvHeading(conversations[ci].topic)
  /\ IF conversations[ci].messages = <<>>
     THEN ci' = ci + 1 /\ mi' = 0
     ELSE ci' = ci /\ mi' = 1
  /\ UNCHANGED <<pc, conversations, ai_positions, bounds_str, new_bounds,
                 iter, exit, result, mainVars, file, parseVars, decodeVars,
                 extractVars, dirVars>>

\* the cursor after message mi of conversation ci
NextMsg ==
  IF mi < Len(conversations[ci].messages)
  THEN ci' = ci /\ mi' = mi + 1
  ELSE ci' = ci + 1 /\ mi' = 0

\* lines 122-127: a user message
BuildUserMessage ==
  /\ pc = "phase1"
  /\ ci <= Len(conversations)
  /\ mi >= 1
  /\ conversations[ci].messages[mi].role = "user"
  /\ body' = body \o UserBlock(conversations[ci].messages[mi].content)
  /\ NextMsg
  /\ UNCHANGED <<pc, conversations, ai_positions, bounds_str, new_bounds,
                 iter, exit, result, mainVars, file, parseVars, decodeVars,
                 extractVars, dirVars>>

\* BuildResponse with ai_end measured after the blank-line separator
BuildResponseWithSeparator ==
  /\ pc = "phase1"
  /\ ci <= Len(conversations)
  /\ mi >= 1
  /\ conversations[ci].messages[mi].role # "user"
  /\ LET content == markdown_to_org(conversations[ci].messages[mi].content)
         ai_start == StrLen(body \o RESPONSE_HEADING)
         ai_end == StrLen(body \o RESPONSE_HEADING \o content \o <<"\n", "\n">>)
     IN /\ body' = body \o RESPONSE_HEADING \o content \o <<"\n", "\n">>
        /\ ai_positions' = Append(ai_positions, <<ai_start, ai_end>>)
  /\ NextMsg
  /\ UNCHANGED <<pc, conversations, bounds_str, new_bounds, iter, exit,
                 result, mainVars, file, parseVars, decodeVars,
                 extractVars, dirVars>>

\* BuildResponse with the pair put in front of ai_positions
BuildResponsePrepend ==
  /\ pc = "phase1"
  /\ ci <= Len(conversations)
  /\ mi >= 1
  /\ conversations[ci].messages[mi].role # "user"
  /\ LET content == markdown_to_org(conversations[ci].messages[mi].content)
         ai_start == StrLen(body \o RESPONSE_HEADING)
         ai_end == StrLen(body \o RESPONSE_HEADING \o content)
     IN /\ body' = body \o RESPONSE_HEADING \o content \o <<"\n", "\n">>
        /\ ai_positions' = <<<<ai_start, ai_end>>>> \o ai_positions
  /\ NextMsg
  /\ UNCHANGED <<pc, conversations, bounds_str, new_bounds, iter, exit,
                 result, mainVars, file, parseVars, decodeVars,
                 extractVars, dirVars>>

\* lines 128-135: a responder message
BuildResponse ==
  /\ pc = "phase1"
  /\ ci <= Len(conversations)
  /\ mi >= 1
  /\ conversations[ci].messages[mi].role # "user"
  /\ LET content == markdown_to_org(conversations[ci].messages[mi].content)
         ai_start == StrLen(body \o RESPONSE_HEADING)
         ai_end == StrLen(body \o RESPONSE_HEADING \o content)
     IN /\ body' = body \o RESPONSE_HEADING \o content \o <<"\n", "\n">>
        /\ ai_positions' = Append(ai_positions, <<ai_start, ai_end>>)
  /\ NextMsg
  /\ UNCHANGED <<pc, conversations, bounds_str, new_bounds, iter, exit,
                 result, mainVars, file, parseVars, decodeVars,
                 extractVars, dirVars>>

\* BuildReturnBody with the placeholder header prepended
BuildReturnBodyWithHeader ==
  /\ pc = "phase1"
  /\ ci > Len(conversations)
  /\ ai_positions = <<>>
  /\ result' = Props(PLACEHOLDER) \o body
  /\ pc' = "built"
  /\ UNCHANGED <<conversations, ci, mi, body, ai_positions, bounds_str,
                 new_bounds, iter, exit, mainVars, file, parseVars, decodeVars,
                 extractVars, dirVars>>

\* lines 137-138: no responder message, the body is returned alone
BuildReturnBody ==
  /\ pc = "phase1"
  /\ ci > Len(conversations)
  /\ ai_positions = <<>>
  /\ result' = body
  /\ pc' = "built"
  /\ UNCHANGED <<conversations, ci, mi, body, ai_positions, bounds_str,
                 new_bounds, iter, exit, mainVars, file, parseVars, decodeVars,
                 extractVars, dirVars>>

\* ------------------------------------------------------------------------
\* build_org_file, Phase 2
\* ------------------------------------------------------------------------
\* line 143: the placeholder, and entry into the loop
BuildPlaceholder ==
  /\ pc = "phase1"
  /\ ci > Len(conversations)
  /\ ai_positions # <<>>
  /\ bounds_str' = PLACEHOLDER
  /\ pc' = "loop"
  /\ UNCHANGED <<conversations, ci, mi, body, ai_positions, new_bounds, iter,
                 exit, result, mainVars, file, parseVars, decodeVars,
                 extractVars, dirVars>>

\* lines 144-153: an iteration that changes bounds_str
LoopStep ==
  /\ pc = "loop"
  /\ iter < MaxIter
  /\ NewBounds(bounds_str, ai_positions) # bounds_str
  /\ new_bounds' = NewBounds(bounds_str, ai_positions)
  /\ bounds_str' = NewBounds(bounds_str, ai_positions)
  /\ iter' = iter + 1
  /\ UNCHANGED <<pc, conversations, ci, mi, body, ai_positions, exit, result,
                 mainVars, file, parseVars, decodeVars,
                 extractVars, dirVars>>

\* lines 144-152: an iteration that reproduces bounds_str, and the break
LoopBreak ==
  /\ pc = "loop"
  /\ iter < MaxIter
  /\ NewBounds(bounds_str, ai_positions) = bounds_str
  /\ new_bounds' = NewBounds(bounds_str, ai_positions)
  /\ iter' = iter + 1
  /\ exit' = "break"
  /\ pc' = "return"
  /\ UNCHANGED <<conversations, ci, mi, body, ai_positions, bounds_str,
                 result, mainVars, file, parseVars, decodeVars,
                 extractVars, dirVars>>

\* line 144: range(10) is exhausted
LoopExhausted ==
  /\ pc = "loop"
  /\ iter = MaxIter
  /\ exit' = "exhausted"
  /\ pc' = "return"
  /\ UNCHANGED <<conversations, ci, mi, body, ai_positions, bounds_str,
                 new_bounds, iter, result, mainVars, file, parseVars, decodeVars,
                 extractVars, dirVars>>

\* lines 155-156: return props + body
BuildReturn ==
  /\ pc = "return"
  /\ result' = Props(bounds_str) \o body
  /\ pc' = "built"
  /\ UNCHANGED <<conversations, ci, mi, body, ai_positions, bounds_str,
                 new_bounds, iter, exit, mainVars, file, parseVars, decodeVars,
                 extractVars, dirVars>>

\* main, lines 195-197: build_org_file has returned to main, the document
\* is written to its file and reported
WriteFile ==
  /\ pc = "built"
  /\ caller = "main"
  /\ file' = result
  /\ stdout' = Append(stdout, Written(Len(conversations)))
  /\ pc' = "files"
  /\ UNCHANGED <<buildVars, pending, rows, caller, parseVars, decodeVars,
                 extractVars, dirVars>>

\* main, line 199: every file is written, the summary is printed; the file
\* written last, if there is one, is parsed afterwards
MainSummary ==
  /\ pc = "files"
  /\ pending = <<>>
  /\ stdout' = Append(stdout, Converted(rows, Len(SelectSeq(stdout, IsWritten))))
  /\ pc' = IF \E k \in 1..Len(stdout) : IsWritten(stdout[k]) THEN "parse"
           ELSE "done"
  /\ UNCHANGED <<buildVars, pending, rows, caller, file, parseVars,
                 decodeVars, extractVars, dirVars>>

\* ------------------------------------------------------------------------
\* parse_org_file
\* ------------------------------------------------------------------------
\* lines 215-223: the file has no markers
ParseNoBounds ==
  /\ pc = "parse"
  /\ Falsy(extract_properties_block(read_text(file)).bounds)
  /\ file_props' = extract_properties_block(read_text(file))
  /\ parsed' = <<>>
  /\ pc' = "parsed"
  /\ UNCHANGED <<buildVars, mainVars, file, sections, si, calls, decodeVars,
                 extractVars, dirVars>>

\* lines 215-226: the file has markers, its sections are found
ParseSplit ==
  /\ pc = "parse"
  /\ ~Falsy(extract_properties_block(read_text(file)).bounds)
  /\ file_props' = extract_properties_block(read_text(file))
  /\ sections' = find_top_level_sections(read_text(file))
  /\ si' = 1
  /\ pc' = IF find_top_level_sections(read_text(file)) = <<>> THEN "whole" ELSE "sections"
  /\ UNCHANGED <<buildVars, mainVars, file, calls, parsed, decodeVars,
                 extractVars, dirVars>>

\* WithConversation without the "if messages" test
WithConversationAlways(topic, messages) ==
  Append(parsed, Conversation(topic, file_props.model, file_props.system,
                              messages))

\* the conversations list after a section or file yielded messages
WithConversation(topic, messages) ==
  IF messages # <<>>
  THEN Append(parsed, Conversation(topic, file_props.model, file_props.system,
                                   messages))
  ELSE parsed

\* ParseWholeFile without lines 233-243: no conversation is built
ParseWholeFileDropped ==
  /\ pc = "whole"
  /\ calls' = Append(calls,
       [content |-> read_text(file), bounds |-> file_props.bounds[1], start_pos |-> 0,
        messages |-> extract_messages_from_bounds(read_text(file), file_props.bounds[1])])
  /\ parsed' = parsed
  /\ pc' = "parsed"
  /\ UNCHANGED <<buildVars, mainVars, file, file_props, sections, si, decodeVars,
                 extractVars, dirVars>>

\* lines 230-243: no headline, the whole file is one conversation
ParseWholeFile ==
  /\ pc = "whole"
  /\ calls' = Append(calls,
       [content |-> read_text(file), bounds |-> file_props.bounds[1], start_pos |-> 0,
        messages |-> extract_messages_from_bounds(read_text(file), file_props.bounds[1])])
  /\ parsed' = WithConversation(file_props.topic, calls'[Len(calls')].messages)
  /\ pc' = "parsed"
  /\ UNCHANGED <<buildVars, mainVars, file, file_props, sections, si, decodeVars,
                 extractVars, dirVars>>

\* section_bounds of the section being processed
SectionBounds ==
  filter_bounds_for_section(file_props.bounds[1], sections[si].start_pos,
                            sections[si].end_pos)

\* lines 246-253: a section without markers is skipped
ParseSkipSection ==
  /\ pc = "sections"
  /\ si <= Len(sections)
  /\ SectionBounds = <<>>
  /\ si' = si + 1
  /\ UNCHANGED <<pc, buildVars, mainVars, file, file_props, sections, calls,
                 parsed, decodeVars,
                 extractVars, dirVars>>

\* topic=section.topic or section.title
SectionTopic(section) ==
  IF Falsy(section.topic) THEN Some(section.title) ELSE section.topic

\* lines 246-274: a section with markers
ParseSection ==
  /\ pc = "sections"
  /\ si <= Len(sections)
  /\ SectionBounds # <<>>
  /\ LET section_content ==
           PySlice(read_text(file), sections[si].start_pos, sections[si].end_pos)
         adjusted_bounds == AdjustBounds(SectionBounds, sections[si].start_pos)
     IN /\ calls' = Append(calls,
             [content |-> section_content, bounds |-> adjusted_bounds,
              start_pos |-> sections[si].start_pos,
              messages |-> extract_messages_from_bounds(section_content,
                                                        adjusted_bounds)])
        /\ parsed' = WithConversation(SectionTopic(sections[si]),
                                      calls'[Len(calls')].messages)
  /\ si' = si + 1
  /\ UNCHANGED <<pc, buildVars, mainVars, file, file_props, sections, decodeVars,
                 extractVars, dirVars>>

\* line 276: all sections are processed
ParseReturn ==
  /\ pc = "sections"
  /\ si > Len(sections)
  /\ pc' = "parsed"
  /\ UNCHANGED <<buildVars, mainVars, file, parseVars, decodeVars,
                 extractVars, dirVars>>

\* ------------------------------------------------------------------------
\* parse_gptel_bounds, called on its own
\* ------------------------------------------------------------------------
ParseGptelBounds ==
  /\ pc = "decode"
  /\ decoded' = parse_gptel_bounds(raw)
  /\ pc' = "decoded"
  /\ UNCHANGED <<buildVars, mainVars, file, parseVars, raw, extractVars, dirVars>>

\* ------------------------------------------------------------------------
\* extract_messages_from_bounds, called on its own
\* ------------------------------------------------------------------------
ExtractMessages ==
  /\ pc = "extract"
  /\ ext_messages' = extract_messages_from_bounds(buffer, markers)
  /\ pc' = "extracted"
  /\ UNCHANGED <<buildVars, mainVars, file, parseVars, decodeVars, buffer,
                 markers, org_text, dirVars>>

\* ------------------------------------------------------------------------
\* markdown_to_org, called on its own
\* ------------------------------------------------------------------------
RenderMarkdown ==
  /\ pc = "markdown"
  /\ org_text' = markdown_to_org(buffer)
  /\ pc' = "rendered"
  /\ UNCHANGED <<buildVars, mainVars, file, parseVars, decodeVars, buffer,
                 markers, ext_messages, dirVars>>

\* ------------------------------------------------------------------------
\* parse_directory
\* ------------------------------------------------------------------------
\* lines 281-283: the "*.org" files of the directory, sorted
DirGlob ==
  /\ pc = "dir"
  /\ queue' = SortedPaths(GlobOrg(directory))
  /\ pc' = "dirloop"
  /\ UNCHANGED <<buildVars, mainVars, file, parseVars, decodeVars, extractVars,
                 directory, filepath, dir_result, errors>>

\* line 285, lines 215-216: parse_org_file is called on the next file, reads
\* it and parses its name
DirCall ==
  /\ pc = "dirloop"
  /\ queue # <<>>
  /\ ~Raises(Head(queue))
  /\ filepath' = Some(Head(queue).name)
  /\ file' = Head(queue).content
  /\ file_props' = EmptyProps
  /\ sections' = <<>>
  /\ si' = 1
  /\ calls' = <<>>
  /\ parsed' = <<>>
  /\ pc' = "parse"
  /\ UNCHANGED <<buildVars, mainVars, decodeVars, extractVars, directory, queue,
                 dir_result, errors>>

\* DirExcept without the try: the exception ends parse_directory
DirExceptAbort ==
  /\ pc = "dirloop"
  /\ queue # <<>>
  /\ Raises(Head(queue))
  /\ errors' = Append(errors, Head(queue).name)
  /\ queue' = <<>>
  /\ UNCHANGED <<pc, buildVars, mainVars, file, parseVars, decodeVars,
                 extractVars, directory, filepath, dir_result>>

\* lines 285, 287-288: parse_org_file raises, the error is printed and the
\* loop goes on
DirExcept ==
  /\ pc = "dirloop"
  /\ queue # <<>>
  /\ Raises(Head(queue))
  /\ errors' = Append(errors, Head(queue).name)
  /\ queue' = Tail(queue)
  /\ UNCHANGED <<pc, buildVars, mainVars, file, parseVars, decodeVars,
                 extractVars, directory, filepath, dir_result>>

\* line 286: parse_org_file has returned, its conversations are collected
DirExtend ==
  /\ pc = "parsed"
  /\ filepath # None
  /\ dir_result' = dir_result \o FileConversations(filepath[1], parsed, 1)
  /\ queue' = Tail(queue)
  /\ filepath' = None
  /\ pc' = "dirloop"
  /\ UNCHANGED <<buildVars, mainVars, file, parseVars, decodeVars, extractVars,
                 directory, errors>>

\* line 290: return conversations
DirReturn ==
  /\ pc = "dirloop"
  /\ queue = <<>>
  /\ pc' = "dirdone"
  /\ UNCHANGED <<buildVars, mainVars, file, parseVars, decodeVars, extractVars,
                 dirVars>>

Init ==
  InitMain \/ InitBuild \/ InitParse \/ InitDecode \/ InitExtract
    \/ InitMarkdown \/ InitDir

Next ==
  \/ MainNextFile
  \/ BuildHeading
  \/ BuildUserMessage
  \/ BuildResponse
  \/ BuildReturnBody
  \/ BuildPlaceholder
  \/ LoopStep
  \/ LoopBreak
  \/ LoopExhausted
  \/ BuildReturn
  \/ WriteFile
  \/ MainSummary
  \/ ParseNoBounds
  \/ ParseSplit
  \/ ParseWholeFile
  \/ ParseSkipSection
  \/ ParseSection
  \/ ParseReturn
  \/ ParseGptelBounds
  \/ ExtractMessages
  \/ RenderMarkdown
  \/ DirGlob
  \/ DirCall
  \/ DirExcept
  \/ DirExtend
  \/ DirReturn

Spec == Init /\ [][Next]_vars

\* ------------------------------------------------------------------------
\* Properties
\* ------------------------------------------------------------------------
IsResponder(m) == m.role # "user"
IsAssistant(m) == m.role = "assistant"

\* the responder messages build_org_file was given, in order
Responders == SelectSeq(MessagesOf(conversations), IsResponder)

\* the content of responder i as build_org_file renders it
Rendered(i) == markdown_to_org(Responders[i].content)

\* the assistant messages parse_org_file returned, in order
ParsedAssistants == SelectSeq(MessagesOf(parsed), IsAssistant)

\* build_org_file has just returned
Returned == pc = "built"

\* build_org_file has just returned, and left its loop by the break
Converged == Returned /\ exit = "break"

\* the document build_org_file returned has been parsed
RoundTripDone == pc = "parsed" /\ stdout # <<>>

\* the tagged form "((response (s1 e1) ... (sn en)))" of a list of pairs
RECURSIVE TaggedPairsFrom(_, _)
TaggedPairsFrom(pairs, i) ==
  IF i > Len(pairs) THEN <<>>
  ELSE (IF i > 1 THEN <<" ">> ELSE <<>>)
         \o <<"(">> \o IntToStr(pairs[i][1]) \o <<" ">>
         \o IntToStr(pairs[i][2]) \o <<")">>
         \o TaggedPairsFrom(pairs, i + 1)

TaggedForm(pairs) ==
  <<"(", "(">> \o RESPONSE \o <<" ">> \o TaggedPairsFrom(pairs, 1) \o <<")", ")">>

\* the pairs of a header block: body offsets moved by its length, 1-indexed
PairsFor(header) ==
  [i \in 1..Len(ai_positions) |->
     <<ai_positions[i][1] + StrLen(header) + 1,
       ai_positions[i][2] + StrLen(header) + 1>>]

\* C1 (as stated): when the responder contents are plain text, parsing the
\* document build_org_file returned yields assistant messages whose contents
\* are the original responder contents, in the same order
C1_RoundTrip ==
  (/\ RoundTripDone
   /\ \A i \in 1..Len(Responders) : Rendered(i) = Responders[i].content)
    => /\ Len(ParsedAssistants) = Len(Responders)
       /\ \A i \in 1..Len(Responders) :
            ParsedAssistants[i].content = Responders[i].content

\* C2: when the loop is left by the break, the returned document is the
\* header block followed by the body, the header encodes for every responder
\* the pair (ai_start + len(header) + 1, ai_end + len(header) + 1), and the
\* characters at the 1-based positions S .. E-1 of the document are the
\* rendered content of that responder
C2_ConvergedOffsets ==
  Converged =>
    LET header == Props(bounds_str)
        pairs == PairsFor(header)
    IN /\ result = header \o body
       /\ bounds_str = TaggedForm(pairs)
       /\ Len(pairs) = Len(Responders)
       /\ \A i \in 1..Len(pairs) :
            PySlice(result, pairs[i][1] - 1, pairs[i][2] - 1) = Rendered(i)

\* two responders, one of them rendered from markdown, after a converged loop
C2_Witness ==
  /\ pc = "built"
  /\ exit = "break"
  /\ Len(ai_positions) = 2
  /\ \E i \in 1..2 : Rendered(i) # Responders[i].content

\* C3: with at least one responder message, the returned document begins
\* with a property block whose GPTEL_BOUNDS value is in the tagged form, with
\* one pair per responder message in message order, and parse_gptel_bounds
\* returns exactly these pairs in the same order
C3_TaggedHeader ==
  (Returned /\ Responders # <<>>) =>
    LET value == PropValue(SplitLines(result)[2], KEY_BOUNDS)
        pairs == parse_gptel_bounds(value)
    IN /\ SplitLines(result)[1] = <<":", "P", "R", "O", "P", "E", "R", "T", "I", "E", "S", ":">>
       /\ StartsWith(SplitLines(result)[2], KEY_BOUNDS)
       /\ SplitLines(result)[3] = <<":", "E", "N", "D", ":">>
       /\ value = TaggedForm(pairs)
       /\ Len(pairs) = Len(Responders)
       /\ \A i \in 1..Len(pairs) :
            /\ pairs[i][2] - pairs[i][1] = StrLen(Rendered(i))
            /\ pairs[i][1] - pairs[1][1] = ai_positions[i][1] - ai_positions[1][1]
       /\ extract_properties_block(result).bounds = Some(pairs)

\* two conversations with a responder each
C3_Witness ==
  /\ pc = "built"
  /\ Len(conversations) = 2
  /\ \A c \in 1..2 : Len(conversations[c].messages) = 1
  /\ Len(Responders) = 2
  /\ Len(parse_gptel_bounds(bounds_str)) = 2

\* the encoded string in the header reproduces itself: encoding the offsets
\* with the header built from it gives the same string
FixedPoint == TaggedForm(PairsFor(Props(bounds_str))) = bounds_str

\* C4 (as stated): for every input with a responder message the loop
\* converges within its 10 iterations, the encoded string used in the header
\* is a fixed point
C4_AlwaysConverges ==
  (Returned /\ Responders # <<>>) => (exit = "break" /\ FixedPoint)

\* C5 (as stated): when the loop exhausts its iterations the document is
\* still returned with the last encoded string in its header, and the caller
\* is told: by the time build_org_file has returned, something other than
\* the lines main prints for documents whose loops converge is printed
C5_ExhaustionObservable ==
  (Returned /\ exit = "exhausted") =>
    /\ result = Props(bounds_str) \o body
    /\ \E k \in 1..Len(stdout) :
         stdout[k].line \notin {"skipped", "written", "converted"}

\* C6: without a responder message build_org_file returns the body alone:
\* the loop is not entered, no header block is prepended and the document
\* holds no GPTEL_BOUNDS property
C6_BodyAlone ==
  (Returned /\ Responders = <<>>) =>
    /\ result = body
    /\ iter = 0
    /\ exit = "none"
    /\ bounds_str = <<>>
    /\ FindFrom(result, KEY_BOUNDS, 1) = 0
    /\ extract_properties_block(result).bounds = None
    /\ (result = <<>> \/ StartsWith(result, <<"*", " ">>))

\* two conversations that hold user messages only
C6_Witness ==
  /\ pc = "built"
  /\ Responders = <<>>
  /\ Len(conversations) = 2
  /\ Len(MessagesOf(conversations)) >= 2

\* Scenario D: one conversation whose only message is a responder message
\* with a rendered content of 500 characters
IsScenarioD ==
  /\ Len(conversations) = 1
  /\ Len(conversations[1].messages) = 1
  /\ IsResponder(conversations[1].messages[1])
  /\ StrLen(markdown_to_org(conversations[1].messages[1].content)) = 500

\* C7 (as stated): in Scenario D the loop stops by convergence after at most
\* 3 iterations, whatever the topic is
C7_ThreeIterations ==
  (Returned /\ IsScenarioD) => (exit = "break" /\ iter <= 3)

\* C7 (amended): in Scenario D the loop stops by convergence, after 4
\* iterations when the topic has 195 to 199 characters (the end offset passes
\* 1000 once the header holds real offsets) and after 3 iterations for every
\* other topic of up to 200 characters, so for every topic of at most 60
\* characters; the encoded pair has end - start = 500
C7_FourIterations ==
  (Returned /\ IsScenarioD) =>
    LET t == StrLen(conversations[1].topic)
        pairs == parse_gptel_bounds(bounds_str)
    IN /\ exit = "break"
       /\ FixedPoint
       /\ iter = IF t \in 195..199 THEN 4 ELSE 3
       /\ Len(pairs) = 1
       /\ pairs[1][2] - pairs[1][1] = 500

\* Scenario D with a topic that needs the fourth iteration
C7_Witness ==
  /\ pc = "built"
  /\ IsScenarioD
  /\ exit = "break"
  /\ iter = 4

\* glyphs a..b of s are one or more digits, one or more spaces, any number of
\* spaces
IsDigits(s, a, b) == a <= b /\ \A k \in a..b : IsDigit(s[k])
IsSpaces(s, a, b) == a <= b /\ \A k \in a..b : IsSpace(s[k])
SpacesOrNone(s, a, b) == \A k \in a..b : IsSpace(s[k])

\* the group "(<int> <int>)" that starts at glyph i, if there is one: where
\* it ends and the pair it holds
TaggedAt(s, i) ==
  IF s[i] # "(" THEN {}
  ELSE UNION {UNION {
         {[end |-> l,
           pair |-> <<StrToInt(SubSeq(s, i + 1, j)), StrToInt(SubSeq(s, k + 1, l - 1))>>] :
            l \in {l \in k + 2..Len(s) : s[l] = ")" /\ IsDigits(s, k + 1, l - 1)}} :
         k \in {k \in j + 1..Len(s) : IsSpaces(s, j + 1, k)}} :
         j \in {j \in i + 1..Len(s) : IsDigits(s, i + 1, j)}}

\* the group "(<int> . <int>)" that starts at glyph i, with any whitespace
\* around the dot
DottedAt(s, i) ==
  IF s[i] # "(" THEN {}
  ELSE UNION {UNION {UNION {
         {[end |-> l,
           pair |-> <<StrToInt(SubSeq(s, i + 1, j)), StrToInt(SubSeq(s, m + 1, l - 1))>>] :
            l \in {l \in m + 2..Len(s) : s[l] = ")" /\ IsDigits(s, m + 1, l - 1)}} :
         m \in {m \in k + 1..Len(s) : SpacesOrNone(s, k + 2, m)}} :
         k \in {k \in j..Len(s) - 1 : SpacesOrNone(s, j + 1, k) /\ s[k + 1] = "."}} :
         j \in {j \in i + 1..Len(s) : IsDigits(s, i + 1, j)}}

GroupAt(kind, s, i) == IF kind = "tagged" THEN TaggedAt(s, i) ELSE DottedAt(s, i)

\* the pairs of the groups of a kind from glyph from on, in encounter order
RECURSIVE GroupsFrom(_, _, _)
GroupsFrom(kind, s, from) ==
  LET I == {i \in from..Len(s) : GroupAt(kind, s, i) # {}}
  IN IF I = {} THEN <<>>
     ELSE LET g == CHOOSE g \in GroupAt(kind, s, SetMin(I)) : TRUE
          IN <<g.pair>> \o GroupsFrom(kind, s, g.end + 1)

\* the glyphs where the token "response" starts
TokenStarts(s) == {i \in 1..Len(s) - 7 : SubSeq(s, i, i + 7) = RESPONSE}

\* the decode contract: with the token, the tagged groups that follow it;
\* without it, the dotted groups
DecodeContract(s) ==
  IF TokenStarts(s) # {}
  THEN GroupsFrom("tagged", s, SetMin(TokenStarts(s)) + 8)
  ELSE GroupsFrom("dotted", s, 1)

\* C8 (as stated): parse_gptel_bounds returns, for a string that holds the
\* token "response", exactly the "(<int> <int>)" groups that follow the
\* token, and otherwise exactly the "(<int> . <int>)" groups, in encounter
\* order
C8_DecodeContract ==
  pc = "decoded" => decoded = DecodeContract(raw)

\* no group of the pattern that applies to s is anywhere in s
NoPairMatches(s) ==
  IF TokenStarts(s) # {} THEN GroupsFrom("tagged", s, 1) = <<>>
  ELSE GroupsFrom("dotted", s, 1) = <<>>

\* the document has no GPTEL_BOUNDS property, or its file-level property
\* block has one in which no pair matches
NoMarkers(doc) ==
  \/ FindFrom(doc, KEY_BOUNDS, 1) = 0
  \/ /\ StartsWith(doc, PROPERTIES_LINE \o KEY_BOUNDS)
     /\ NoPairMatches(PropValue(SplitLines(doc)[2], KEY_BOUNDS))

\* C9: parse_gptel_bounds returns the empty list for the empty string and
\* for every string in which no pair matches, and parse_org_file returns no
\* conversation, without reaching the extractor, for a document without
\* markers, sections or not
C9_NoMarkersNoError ==
  /\ (pc = "decoded" /\ NoPairMatches(raw)) => decoded = <<>>
  /\ (pc = "parsed" /\ NoMarkers(read_text(file))) => (parsed = <<>> /\ calls = <<>>)

\* a parsed document with sections whose GPTEL_BOUNDS holds no pair
C9_Witness ==
  /\ pc = "parsed"
  /\ StartsWith(read_text(file), JUNK_BLOCK)
  /\ Cardinality(HeadlineStarts(read_text(file))) = 2
  /\ parsed = <<>>

\* C10 (as stated): every marker handed to extract_messages_from_bounds has
\* 0 <= start < end
C10_WellFormedMarkers ==
  \A k \in 1..Len(calls) : \A j \in 1..Len(calls[k].bounds) :
    /\ 0 <= calls[k].bounds[j][1]
    /\ calls[k].bounds[j][1] < calls[k].bounds[j][2]


\* parse_org_file has found the sections of the file
SectionsFound ==
  \/ pc \in {"whole", "sections"}
  \/ pc = "parsed" /\ ~Falsy(file_props.bounds)

\* glyph i of the text starts a top-level heading: "* " at the start of a
\* line, followed by at least one character of that line
IsHeadingAt(text, i) ==
  /\ i = 1 \/ text[i - 1] = "\n"
  /\ i + 2 <= Len(text)
  /\ text[i] = "*" /\ text[i + 1] = " " /\ text[i + 2] # "\n"

\* the start offsets of the top-level headings of the file as it is read
HeadingOffsets ==
  LET text == read_text(file)
  IN {WidthSum(text, 1, i - 1) :
        i \in {j \in 1..Len(text) : IsHeadingAt(text, j)}}

\* C11: find_top_level_sections returns one section per top-level heading,
\* in the order the headings appear; each section has start_pos < end_pos,
\* ends where the next one starts, and the last one ends at the end of the
\* document
C11_SectionsContiguous ==
  SectionsFound =>
    /\ {sections[k].start_pos : k \in 1..Len(sections)} = HeadingOffsets
    /\ Len(sections) = Cardinality(HeadingOffsets)
    /\ \A k \in 1..Len(sections) : sections[k].start_pos < sections[k].end_pos
    /\ \A k \in 1..(Len(sections) - 1) :
         sections[k].end_pos = sections[k + 1].start_pos
    /\ sections # <<>> => sections[Len(sections)].end_pos = StrLen(read_text(file))

\* C11 witness: a file with two sections has been split
C11_Witness ==
  /\ SectionsFound
  /\ Len(sections) = 2
  /\ sections[1].end_pos = sections[2].start_pos
  /\ sections[2].end_pos = StrLen(read_text(file))

\* the markers of the file that lie within a section, in the order of the
\* file's marker list
MarkersWithin(section) ==
  LET Within(b) == b[1] >= section.start_pos /\ b[2] <= section.end_pos
  IN SelectSeq(file_props.bounds[1], Within)

\* the markers of the file that straddle a section boundary
Straddling ==
  {file_props.bounds[1][i] : i \in 1..Len(file_props.bounds[1])}
    \cap {b \in Int \X Int :
            \E k \in 1..Len(sections) :
              \/ b[1] < sections[k].start_pos /\ sections[k].start_pos < b[2]
              \/ b[1] < sections[k].end_pos /\ sections[k].end_pos < b[2]}

\* a message of a call covers text of marker b
CoversTextOf(call, message, b) ==
  /\ message.char_start + call.start_pos < b[2]
  /\ b[1] < message.char_end + call.start_pos

\* C12: the markers handed to the extractor for a section are exactly the
\* file's markers (s, e) with s >= start_pos and e <= end_pos, in input
\* order, and a section with no such marker gets no call; a marker that
\* straddles a section boundary is handed over for no section, and no
\* responder message of any returned conversation covers text of it
C12_StraddlingExcluded ==
  (SectionsFound /\ sections # <<>>) =>
    /\ \A j \in 1..Len(calls) :
         \E k \in 1..Len(sections) :
           /\ sections[k].start_pos = calls[j].start_pos
           /\ Shift(calls[j].bounds, calls[j].start_pos)
                = MarkersWithin(sections[k])
    /\ \A k \in 1..Len(sections) :
         (k < si /\ MarkersWithin(sections[k]) = <<>>) =>
           \A j \in 1..Len(calls) : calls[j].start_pos # sections[k].start_pos
    /\ \A j \in 1..Len(parsed) :
         \E i \in 1..Len(calls) : parsed[j].messages = calls[i].messages
    /\ \A b \in Straddling :
         \A j \in 1..Len(calls) :
           /\ \A i \in 1..Len(calls[j].bounds) :
                Shift(calls[j].bounds, calls[j].start_pos)[i] # b
           /\ \A i \in 1..Len(calls[j].messages) :
                calls[j].messages[i].role = "assistant"
                  => ~CoversTextOf(calls[j], calls[j].messages[i], b)

\* C12 witness: a file with a straddling marker has been parsed, and another
\* of its markers has yielded a conversation
C12_Witness ==
  /\ pc = "parsed"
  /\ sections # <<>>
  /\ Straddling # {}
  /\ parsed # <<>>
  /\ \E j \in 1..Len(calls) : \E i \in 1..Len(calls[j].messages) :
       calls[j].messages[i].role = "assistant"

\* markers that are well-formed (0 <= start < end), sorted by start and
\* non-overlapping
WellFormedSorted(bounds) ==
  /\ \A i \in 1..Len(bounds) : 0 <= bounds[i][1] /\ bounds[i][1] < bounds[i][2]
  /\ \A i \in 1..(Len(bounds) - 1) : bounds[i][2] <= bounds[i + 1][1]

\* the 2N+1 candidate spans of N markers, in order: before marker 1, marker
\* 1, between markers 1 and 2, ..., marker N, after marker N
SlotRole(k) == IF k % 2 = 0 THEN "assistant" ELSE "user"
SlotStart(bounds, k) ==
  IF k % 2 = 0 THEN bounds[k \div 2][1]
  ELSE IF k = 1 THEN 0 ELSE bounds[(k - 1) \div 2][2]
SlotEnd(content, bounds, k) ==
  IF k % 2 = 0 THEN bounds[k \div 2][2]
  ELSE IF k = 2 * Len(bounds) + 1 THEN StrLen(content)
  ELSE bounds[(k + 1) \div 2][1]

\* the slots a message can stem from, by its role and offsets
SlotsOf(content, bounds, m) ==
  {k \in 1..(2 * Len(bounds) + 1) :
     /\ m.role = SlotRole(k)
     /\ m.char_start = SlotStart(bounds, k)
     /\ m.char_end = SlotEnd(content, bounds, k)}

\* the messages stem from slots in strictly ascending order, so the roles
\* alternate wherever no slot was left out; a slot is left out only when
\* its span is empty or strips to the empty string
Alternating(content, bounds, msgs) ==
  /\ Len(msgs) <= 2 * Len(bounds) + 1
  /\ \A j \in 1..Len(msgs) : Cardinality(SlotsOf(content, bounds, msgs[j])) = 1
  /\ \A j \in 1..(Len(msgs) - 1) :
       \A a \in SlotsOf(content, bounds, msgs[j]) :
         \A b \in SlotsOf(content, bounds, msgs[j + 1]) : a < b
  /\ \A k \in 1..(2 * Len(bounds) + 1) :
       (\A j \in 1..Len(msgs) : k \notin SlotsOf(content, bounds, msgs[j]))
         => \/ SlotStart(bounds, k) >= SlotEnd(content, bounds, k)
            \/ strip_org_formatting(PySlice(content, SlotStart(bounds, k),
                                            SlotEnd(content, bounds, k))) = <<>>

\* C13: for N >= 1 well-formed, sorted, non-overlapping markers the extractor
\* emits at most 2N+1 messages, and their roles alternate user/assistant
\* except where a span was left out because it is empty or strips to the
\* empty string
C13_AtMostAlternating ==
  /\ (pc = "extracted" /\ markers # <<>> /\ WellFormedSorted(markers))
       => Alternating(buffer, markers, ext_messages)
  /\ \A j \in 1..Len(calls) :
       WellFormedSorted(calls[j].bounds)
         => Alternating(calls[j].content, calls[j].bounds, calls[j].messages)

\* C13 witness: one marker has yielded three messages: user, assistant, user
C13_Witness ==
  /\ pc = "extracted"
  /\ Len(markers) = 1 /\ WellFormedSorted(markers)
  /\ Len(ext_messages) = 3
  /\ ext_messages[1].role = "user"
  /\ ext_messages[2].role = "assistant"
  /\ ext_messages[3].role = "user"

\* extract_messages_from_bounds has returned for a single marker that spans
\* the whole buffer
SpanningCall ==
  pc = "extracted" /\ markers = <<<<0, StrLen(buffer)>>>>

\* C14 (as stated): a single marker (0, len(buffer)) yields exactly one
\* message, with role assistant, char_start 0 and char_end len(buffer)
C14_OneResponder ==
  SpanningCall =>
    /\ Len(ext_messages) = 1
    /\ ext_messages[1].role = "assistant"
    /\ ext_messages[1].char_start = 0
    /\ ext_messages[1].char_end = StrLen(buffer)

\* C14 (amended): a single marker (0, len(buffer)) yields exactly one
\* message, with role assistant, char_start 0, char_end len(buffer) and the
\* stripped buffer as content, when the buffer does not strip to the empty
\* string, and no message at all when it does
C14_OneResponderIfText ==
  SpanningCall =>
    IF strip_org_formatting(buffer) # <<>>
    THEN ext_messages = <<Message("assistant", strip_org_formatting(buffer),
                                  0, StrLen(buffer))>>
    ELSE ext_messages = <<>>

\* C14 witness: a buffer with text and one spanning marker has yielded its
\* one assistant message
C14_Witness ==
  /\ SpanningCall
  /\ Len(ext_messages) = 1
  /\ ext_messages[1].role = "assistant"
  /\ ext_messages[1].char_start = 0
  /\ ext_messages[1].char_end = StrLen(buffer)
  /\ StrLen(buffer) > StrLen(ext_messages[1].content)

\* the roles and contents of a list of messages
RoleContent(msgs) == [k \in 1..Len(msgs) |-> <<msgs[k].role, msgs[k].content>>]

\* what Scenario A expects: user "Hello", assistant "Hi there"
SCENARIO_A_EXPECTED ==
  << <<"user", <<"H", "e", "l", "l", "o">>>>,
     <<"assistant", <<"H", "i", " ", "t", "h", "e", "r", "e">>>> >>

\* C15 (as stated): the text of Scenario A, handed to the extractor with one
\* marker around "Hi there", yields user "Hello" and assistant "Hi there";
\* so does the document that csv_to_org builds from that text, once parsed
C15_ScenarioA ==
  /\ (pc = "extracted" /\ buffer = SCENARIO_A /\ markers = HI_THERE)
       => RoleContent(ext_messages) = SCENARIO_A_EXPECTED
  /\ (/\ RoundTripDone
      /\ conversations = <<CsvConversation(parse_conversation(SCENARIO_A))>>)
       => /\ Len(parsed) = 1
          /\ RoleContent(parsed[1].messages) = SCENARIO_A_EXPECTED

\* Scenario C: a file with two sections and a single well-formed marker that
\* lies within the second section has been parsed
IsScenarioC ==
  /\ pc = "parsed"
  /\ ~Falsy(file_props.bounds)
  /\ Len(sections) = 2
  /\ Len(file_props.bounds[1]) = 1
  /\ file_props.bounds[1][1][1] < file_props.bounds[1][1][2]
  /\ file_props.bounds[1][1][1] >= sections[2].start_pos
  /\ file_props.bounds[1][1][2] <= sections[2].end_pos

\* C16 (as stated): in Scenario C parse_org_file returns exactly one
\* conversation, and it holds exactly one message
C16_OneMessage ==
  IsScenarioC => (Len(parsed) = 1 /\ Len(parsed[1].messages) = 1)

\* the message of a span of text, if it keeps text after stripping
SpanMessage(role, text) ==
  IF strip_org_formatting(text) = <<>> THEN <<>>
  ELSE << <<role, strip_org_formatting(text)>> >>

\* what one marker (s, e) makes of a text: the text before it, the marked
\* text and the text after it, each where it keeps text after stripping
OneMarkerMessages(text, s, e) ==
  SpanMessage("user", PySlice(text, 0, s))
    \o SpanMessage("assistant", PySlice(text, s, e))
    \o SpanMessage("user", PySlice(text, e, StrLen(text)))

\* C16 (amended): in Scenario C the first section yields no call of the
\* extractor and no conversation; the second section yields one conversation
\* if any of its spans keeps text after stripping, and none otherwise; the
\* conversation holds the responder message of the marker if the marked text
\* keeps text after stripping, and an initiator message for the text before
\* and for the text after the marker where that keeps text; it holds exactly
\* one message when the marker spans the whole section
C16_SecondSectionOnly ==
  IsScenarioC =>
    LET text == PySlice(read_text(file), sections[2].start_pos,
                        sections[2].end_pos)
        s == file_props.bounds[1][1][1] - sections[2].start_pos
        e == file_props.bounds[1][1][2] - sections[2].start_pos
    IN /\ Len(calls) = 1
       /\ calls[1].start_pos = sections[2].start_pos
       /\ IF OneMarkerMessages(text, s, e) = <<>>
          THEN parsed = <<>>
          ELSE /\ Len(parsed) = 1
               /\ parsed[1].messages = calls[1].messages
               /\ RoleContent(parsed[1].messages) = OneMarkerMessages(text, s, e)
               /\ Len(parsed[1].messages) \in 1..3
               /\ (s = 0 /\ e = StrLen(text)) =>
                    /\ Len(parsed[1].messages) = 1
                    /\ parsed[1].messages[1].role = "assistant"

\* C16 witness: Scenario C with a marker that spans the second section has
\* yielded one conversation of one message
C16_Witness ==
  /\ IsScenarioC
  /\ Len(parsed) = 1
  /\ Len(parsed[1].messages) = 1
  /\ parsed[1].messages[1].role = "assistant"

\* the message is not empty and has no whitespace at either end
Trimmed(m) ==
  /\ m.content # <<>>
  /\ ~IsSpace(m.content[1])
  /\ ~IsSpace(m.content[Len(m.content)])

\* the messages of a call are trimmed; a marker whose text strips to the
\* empty string has no message; and every user message starts where the
\* marker before its span ends (at 0 before the first one), whether or not
\* that marker has a message
EmptySpansDropped(content, bounds, msgs) ==
  /\ \A j \in 1..Len(msgs) : Trimmed(msgs[j])
  /\ \A i \in 1..Len(bounds) :
       strip_org_formatting(PySlice(content, bounds[i][1], bounds[i][2])) = <<>>
         => \A j \in 1..Len(msgs) :
              msgs[j].role = "assistant"
                => <<msgs[j].char_start, msgs[j].char_end>> # bounds[i]
  /\ \A j \in 1..Len(msgs) :
       msgs[j].role = "user" =>
         \E i \in 0..Len(bounds) :
           /\ msgs[j].char_start = IF i = 0 THEN 0 ELSE SortByStart(bounds)[i][2]
           /\ msgs[j].char_end = IF i = Len(bounds) THEN StrLen(content)
                                 ELSE SortByStart(bounds)[i + 1][1]

\* C17: for any buffer and any marker list, every message the extractor
\* emits has a content that is not empty and has no leading or trailing
\* whitespace; a span whose stripped text is empty emits no message, and the
\* cursor still moves past it
C17_NoEmptyMessages ==
  /\ pc = "extracted" => EmptySpansDropped(buffer, markers, ext_messages)
  /\ \A j \in 1..Len(calls) :
       EmptySpansDropped(calls[j].content, calls[j].bounds, calls[j].messages)

\* C17 witness: a marker around whitespace between two texts has no message,
\* and the user message after it starts at the marker's end
C17_Witness ==
  /\ pc = "extracted"
  /\ Len(markers) = 1
  /\ markers[1][1] < markers[1][2]
  /\ strip_org_formatting(PySlice(buffer, markers[1][1], markers[1][2])) = <<>>
  /\ Len(ext_messages) = 2
  /\ ext_messages[1].role = "user" /\ ext_messages[1].char_end = markers[1][1]
  /\ ext_messages[2].role = "user" /\ ext_messages[2].char_start = markers[1][2]

\* the "*.org" files of the directory whose parse raises, and the others
Failing == {f \in GlobOrg(directory) : Raises(f)}
Parsing == GlobOrg(directory) \ Failing

\* the names of a sequence of files
RECURSIVE NamesOf(_)
NamesOf(files) ==
  IF files = <<>> THEN <<>> ELSE <<Head(files).name>> \o NamesOf(Tail(files))

\* the number of conversations in the documents of the directories
ConversationsIn(doc) ==
  IF doc = DOC_ONE THEN 1 ELSE IF doc = DOC_TWO THEN 2 ELSE 0

\* C18: parse_directory handles the files in sorted name order; a file whose
\* parse raises contributes no conversation and is reported, and every other
\* file, before or after it, has all its conversations in the result, in
\* file order
C18_FailuresIsolated ==
  pc = "dirdone" =>
    /\ errors = NamesOf(SortedPaths(Failing))
    /\ \A k \in 1..Len(dir_result) :
         \E f \in Parsing : f.name = dir_result[k].file_path
    /\ \A k \in 1..(Len(dir_result) - 1) :
         \/ dir_result[k].file_path = dir_result[k + 1].file_path
         \/ PathLess(dir_result[k].file_path, dir_result[k + 1].file_path)
    /\ \A f \in Parsing :
         Cardinality({k \in 1..Len(dir_result) :
                        dir_result[k].file_path = f.name})
           = ConversationsIn(f.content)

\* C18 witness: the middle file of three raises; the conversation of the
\* file before it and the two of the file after it are returned
C18_Witness ==
  /\ pc = "dirdone"
  /\ errors = <<NAME_FEB>>
  /\ Len(dir_result) = 3
  /\ dir_result[1].file_path = NAME_JAN
  /\ dir_result[2].file_path = NAME_NOTES
  /\ dir_result[3].file_path = NAME_NOTES

\* the topic property of the property block that follows the heading line
\* of a section, None when the section has no such block or no such line;
\* a topic property without a value counts as none
OwnTopic(section_content) ==
  LET lines == SplitLines(section_content)
      E == {k \in 3..Len(lines) : Strip(lines[k]) = END_TAG}
      T == IF E = {} THEN {}
           ELSE {k \in 3..(SetMin(E) - 1) :
                   /\ StartsWith(Strip(lines[k]), KEY_TOPIC)
                   /\ PropValue(Strip(lines[k]), KEY_TOPIC) # <<>>}
  IN IF Len(lines) >= 2 /\ Strip(lines[2]) = PROPERTIES_TAG /\ T # {}
     THEN Some(PropValue(Strip(lines[SetMax(T)]), KEY_TOPIC))
     ELSE None

\* the text of the heading line of a section
HeadingOf(section_content) ==
  Strip(Drop(SplitLines(section_content)[1], 2))

\* the conversation built from the j-th call of the extractor
ConversationOf(j) ==
  parsed[Cardinality({i \in 1..j : calls[i].messages # <<>>})]

\* C19: the topic of a conversation built from a section is the topic
\* property of the section's own property block when it has one, and the
\* text of the heading only when the section has no topic property
C19_TopicFromOwnBlock ==
  \A j \in 1..Len(calls) :
    sections # <<>> /\ calls[j].messages # <<>> =>
      ConversationOf(j).topic =
        IF OwnTopic(calls[j].content) = None
        THEN Some(HeadingOf(calls[j].content))
        ELSE OwnTopic(calls[j].content)

\* parse_org_file has returned for a document without a top-level heading
\* whose file-level bounds hold a marker with 0 <= start < end <= length
WholeFileParsed ==
  /\ pc = "parsed"
  /\ HeadingOffsets = {}
  /\ ~Falsy(file_props.bounds)
  /\ \E k \in 1..Len(file_props.bounds[1]) :
       /\ 0 <= file_props.bounds[1][k][1]
       /\ file_props.bounds[1][k][1] < file_props.bounds[1][k][2]
       /\ file_props.bounds[1][k][2] <= StrLen(read_text(file))

\* the extractor was called once, on the whole document with the file-level
\* markers, and the conversations are the given number of conversations
\* with the messages of that call
WholeFileConversations(n) ==
  /\ Len(calls) = 1
  /\ calls[1].content = read_text(file)
  /\ calls[1].start_pos = 0
  /\ calls[1].bounds = extract_properties_block(read_text(file)).bounds[1]
  /\ Len(parsed) = n
  /\ \A k \in 1..Len(parsed) :
       /\ parsed[k].messages = calls[1].messages
       /\ parsed[k].topic = file_props.topic

\* C20: for a document without a top-level heading whose file-level bounds
\* hold at least one valid marker, parse_org_file returns exactly one
\* conversation, over the whole document, with the messages extracted from
\* the full buffer with the file-level markers
C20_OneConversation ==
  WholeFileParsed => WholeFileConversations(1)

\* C20 as the code has it: one such conversation when the extractor finds a
\* message, none when every span of the document strips to the empty string
C20_OneConversationIfText ==
  WholeFileParsed =>
    WholeFileConversations(IF calls[1].messages = <<>> THEN 0 ELSE 1)

\* C20 witness: a document without a heading yields one conversation of a
\* question and a response
C20_Witness ==
  /\ WholeFileParsed
  /\ Len(parsed) = 1
  /\ Len(parsed[1].messages) = 2
  /\ parsed[1].messages[1].role = "user"
  /\ parsed[1].messages[2].role = "assistant"
  /\ parsed[1].messages[2].char_end <= StrLen(read_text(file))

\* the line is, after strip(), a fence line
IsFenceLine(line) == StartsWith(Strip(line), FENCE)

\* line i of the text is within an open fence: the number of fence lines
\* before it is odd
InFence(lines, i) ==
  Cardinality({k \in 1..(i - 1) : IsFenceLine(lines[k])}) % 2 = 1

\* the line is k "#" characters, 1 <= k <= 6, then whitespace
HashCount(line) ==
  IF \E k \in 1..6 : /\ Len(line) > k
                     /\ \A j \in 1..k : line[j] = "#"
                     /\ IsSpace(line[k + 1])
  THEN CHOOSE k \in 1..6 : /\ Len(line) > k
                           /\ \A j \in 1..k : line[j] = "#"
                           /\ IsSpace(line[k + 1])
  ELSE 0

\* the line without its first n glyphs and the whitespace after them
AfterSpaces(line, n) ==
  LET I == {j \in (n + 1)..Len(line) : ~IsSpace(line[j])}
  IN IF I = {} THEN <<>> ELSE SubSeq(line, SetMin(I), Len(line))

\* what Scenario E renders as
SCENARIO_E_ORG ==
  JoinLines(<< <<"*", "*", "*", "*", "*", " ", "T", "i", "t", "l", "e">>, <<>>,
               BEGIN_SRC \o <<" ", "p", "y", "t", "h", "o", "n">>,
               <<"p", "r", "i", "n", "t", "(", "1", ")">>, END_SRC >>)

\* the lines of the rendering, one per line of the text: an opening fence
\* is "#+begin_src" with its language, a closing fence "#+end_src", a line
\* within a fence is itself, and a heading of k "#" outside a fence has
\* k + 3 stars
RendersAs(text, org) ==
  LET lines == SplitLines(text)
      out == SplitLines(org)
  IN /\ Len(out) = Len(lines)
     /\ \A i \in 1..Len(lines) :
          IF IsFenceLine(lines[i])
          THEN out[i] = IF InFence(lines, i) THEN END_SRC
                        ELSE IF AfterSpaces(Strip(lines[i]), 3) = <<>>
                        THEN BEGIN_SRC
                        ELSE BEGIN_SRC \o <<" ">> \o AfterSpaces(Strip(lines[i]), 3)
          ELSE IF InFence(lines, i) THEN out[i] = lines[i]
          ELSE HashCount(lines[i]) > 0 =>
                 out[i] = [j \in 1..(HashCount(lines[i]) + 3) |-> "*"] \o <<" ">>
                            \o AfterSpaces(lines[i], HashCount(lines[i]))

\* C21: markdown_to_org turns a heading line of k "#" (1 <= k <= 6) outside
\* a fence into a heading of k + 3 stars, and a fenced block into a
\* "#+begin_src lang" line, its body lines unchanged, and a "#+end_src"
\* line; Scenario E renders as "***** Title", "", "#+begin_src python",
\* "print(1)", "#+end_src"
C21_HeadingsAndFences ==
  pc = "rendered" =>
    /\ RendersAs(buffer, org_text)
    /\ buffer = SCENARIO_E => org_text = SCENARIO_E_ORG

\* C21 witness: Scenario E has been rendered
C21_Witness ==
  /\ pc = "rendered"
  /\ buffer = SCENARIO_E
  /\ org_text = SCENARIO_E_ORG

\* every message of a call has the offsets of its raw span: a marker for a
\* responder, the gap before a marker or after the last one for an
\* initiator; its content is what stripping leaves of that span; and the
\* offsets are positions of the sub-document
RawSpans(content, bounds, msgs) ==
  \A j \in 1..Len(msgs) :
    /\ msgs[j].content =
         strip_org_formatting(PySlice(content, msgs[j].char_start,
                                      msgs[j].char_end))
    /\ IF msgs[j].role = "assistant"
       THEN \E i \in 1..Len(bounds) :
              <<msgs[j].char_start, msgs[j].char_end>> = bounds[i]
       ELSE \E i \in 0..Len(bounds) :
              /\ msgs[j].char_start =
                   IF i = 0 THEN 0 ELSE SortByStart(bounds)[i][2]
              /\ msgs[j].char_end =
                   IF i = Len(bounds) THEN StrLen(content)
                   ELSE SortByStart(bounds)[i + 1][1]
    /\ 0 <= msgs[j].char_start
    /\ msgs[j].char_start < msgs[j].char_end
    /\ msgs[j].char_end <= StrLen(content)

\* C22: every message the extractor emits carries the boundaries of its raw
\* span, (cursor, s) before a marker (s, e), (s, e) for the marker and
\* (cursor, length) after the last one, whatever stripping removed, and
\* 0 <= char_start < char_end <= length of the sub-document
C22_RawSpanOffsets ==
  /\ pc = "extracted" => RawSpans(buffer, markers, ext_messages)
  /\ \A j \in 1..Len(calls) :
       RawSpans(calls[j].content, calls[j].bounds, calls[j].messages)

\* the indices, in order, of the file-level markers (s, e) with
\* start_pos <= s and e <= end_pos for section k
ContainedIn(k) ==
  {i \in 1..Len(file_props.bounds[1]) :
     /\ file_props.bounds[1][i][1] >= sections[k].start_pos
     /\ file_props.bounds[1][i][2] <= sections[k].end_pos}

\* the number of sections up to section k that contain a marker
CallsUpTo(k) == Cardinality({i \in 1..k : ContainedIn(i) # {}})

\* the call for section k has the section's text, and as markers the
\* contained markers, each moved by start_pos, in their order
CallOfSection(call, k) ==
  /\ call.start_pos = sections[k].start_pos
  /\ call.content = PySlice(read_text(file), sections[k].start_pos, sections[k].end_pos)
  /\ Len(call.bounds) = Cardinality(ContainedIn(k))
  /\ \A n \in 1..Len(call.bounds) :
       \E i \in ContainedIn(k) :
         /\ Cardinality({x \in ContainedIn(k) : x <= i}) = n
         /\ call.bounds[n] =
              <<file_props.bounds[1][i][1] - sections[k].start_pos,
                file_props.bounds[1][i][2] - sections[k].start_pos>>
  /\ \A n \in 1..Len(call.bounds) :
       /\ 0 <= call.bounds[n][1]
       /\ call.bounds[n][2] <= sections[k].end_pos - sections[k].start_pos
  /\ \A n \in 1..Len(call.messages) :
       call.messages[n].content =
            strip_org_formatting(PySlice(call.content,
                                         call.messages[n].char_start,
                                         call.messages[n].char_end))

\* C23: for every section with at least one contained marker parse_org_file
\* calls the extractor with content[start_pos:end_pos] and exactly the
\* contained markers, start_pos subtracted from both ends; every such pair
\* (s', e') has 0 <= s' and e' <= end_pos - start_pos, and the offsets of
\* the messages are relative to the section
C23_SectionRebased ==
  sections # <<>> =>
    /\ Len(calls) = CallsUpTo(IF pc = "parsed" THEN Len(sections) ELSE si - 1)
    /\ \A k \in 1..Len(sections) :
         (k < si \/ pc = "parsed") /\ ContainedIn(k) # {}
           => CallOfSection(calls[CallsUpTo(k)], k)

\* C23 witness: two sections were passed to the extractor, the second one
\* with a marker that was moved by the section's start
C23_Witness ==
  /\ pc = "parsed"
  /\ Len(sections) = 2
  /\ Len(calls) = 2
  /\ calls[2].start_pos > 0
  /\ calls[2].bounds # <<>>
  /\ calls[2].bounds[1][1] + calls[2].start_pos
       = file_props.bounds[1][Len(file_props.bounds[1])][1]
  /\ \E n \in 1..Len(calls[2].messages) :
       calls[2].messages[n].role = "assistant"

\* the pairs encoded in the header of the returned document
EncodedPairs == extract_properties_block(result).bounds[1]

\* C24: for every responder message build_org_file wrote, the pair (S, E)
\* encoded in the returned document has E - S = the length of the message's
\* rendered content, the blank-line separator excluded, whatever the length
\* of the header and whether the loop converged or ran out of iterations;
\* E - S = 500 for a rendered content of 500 characters
C24_PairSpansContent ==
  Returned /\ Responders # <<>> =>
    /\ Len(EncodedPairs) = Len(Responders)
    /\ \A i \in 1..Len(Responders) :
         EncodedPairs[i][2] - EncodedPairs[i][1] = StrLen(Rendered(i))

\* C24 witness: a document with one responder message of 500 characters is
\* returned, and its pair spans 500
C24_Witness ==
  /\ Returned
  /\ Len(Responders) = 1
  /\ StrLen(Rendered(1)) = 500
  /\ EncodedPairs[1][2] - EncodedPairs[1][1] = 500

\* no two markers have the same start
DistinctStarts(bounds) ==
  \A i, j \in 1..Len(bounds) : i # j => bounds[i][1] # bounds[j][1]

\* the markers arranged by ascending start
RECURSIVE AscendingByStart(_)
AscendingByStart(bounds) ==
  IF bounds = <<>> THEN <<>>
  ELSE LET i == CHOOSE k \in 1..Len(bounds) :
                  \A j \in 1..Len(bounds) : bounds[k][1] <= bounds[j][1]
       IN <<bounds[i]>>
            \o AscendingByStart(SubSeq(bounds, 1, i - 1)
                                  \o SubSeq(bounds, i + 1, Len(bounds)))

\* C25: the extractor processes the markers in ascending order of start
\* whatever their input order: for markers with pairwise distinct starts
\* the messages are those of the ascending arrangement, so every permutation
\* of the list gives the same messages; and the list it was given is left
\* as it was
C25_OrderIndependent ==
  [][ExtractMessages /\ DistinctStarts(markers) =>
       /\ markers' = markers
       /\ ext_messages' =
            extract_messages_from_bounds(buffer, AscendingByStart(markers))]_vars

\* C25 witness: three markers given in descending order; the messages are
\* in ascending order of their offsets
C25_Witness ==
  /\ pc = "extracted"
  /\ Len(markers) = 3
  /\ markers[1][1] > markers[2][1] /\ markers[2][1] > markers[3][1]
  /\ Len(ext_messages) >= 3
  /\ \A j \in 1..(Len(ext_messages) - 1) :
       ext_messages[j].char_start < ext_messages[j + 1].char_start

\* the offsets at which the sections start
SectionStarts == {sections[k].start_pos : k \in 1..Len(sections)}

\* the offsets of the lines of the file, as it is read, whose glyphs
\* satisfy Test(text, i), i the index of the first glyph of the line
LineOffsets(Test(_, _)) ==
  LET text == read_text(file)
  IN {WidthSum(text, 1, i - 1) :
        i \in {j \in 1..Len(text) :
                 (j = 1 \/ text[j - 1] = "\n") /\ Test(text, j)}}

\* the line at glyph i is one "*", exactly one space, then heading text
OneStarOneSpace(text, i) ==
  /\ i + 2 <= Len(text)
  /\ text[i] = "*" /\ text[i + 1] = " "
  /\ ~IsSpace(text[i + 2])

\* the line at glyph i is one "*", a space, then at least one more
\* character, which may be a space
OneStarSpaceMore(text, i) ==
  /\ i + 2 <= Len(text)
  /\ text[i] = "*" /\ text[i + 1] = " "
  /\ text[i + 2] # "\n"

\* C26: find_top_level_sections starts a section at a line if and only if
\* the line begins with a single "*", exactly one space and then heading
\* text; lines that begin with two or more "*" and lines where the "*" is
\* followed by two or more spaces never start a section
C26_ExactlyOneSpace ==
  SectionsFound => SectionStarts = LineOffsets(OneStarOneSpace)

\* C26 as the code has it: a section starts at a line if and only if the
\* line begins with a single "*", a space and at least one further
\* character of the line, so also where two or more spaces follow the "*";
\* a line that begins with two or more "*" never starts a section
C26_OneStarAndSpace ==
  SectionsFound =>
    /\ SectionStarts = LineOffsets(OneStarSpaceMore)
    /\ Len(sections) = Cardinality(SectionStarts)

\* C26 witness: a line of one star and two spaces starts the only section
\* of a document that also has a line of two stars
C26_Witness ==
  /\ SectionsFound
  /\ Len(sections) = 1
  /\ StartsWithAt(read_text(file), 1 + GlyphsWithin(read_text(file), sections[1].start_pos),
                  <<"*", " ", " ", "A", "\n">>)
  /\ FindFrom(read_text(file), <<"\n", "*", "*", " ", "A", "\n">>, 1) > 0

\* the line opens, or closes, a literal, quote or example block
IsBlockOpen(line) ==
  \E k \in BlockKinds :
    StartsWith(LowerStr(line), <<"#", "+", "b", "e", "g", "i", "n", "_">> \o k)
IsBlockClose(line) ==
  \E k \in BlockKinds :
    StartsWith(LowerStr(line), <<"#", "+", "e", "n", "d", "_">> \o k)

\* line k of the lines is enclosed in a block: a line that opens a block
\* is before it, a line that closes one after it, and no delimiter between
Enclosed(lines, k) ==
  /\ ~IsBlockOpen(lines[k]) /\ ~IsBlockClose(lines[k])
  /\ \E a \in 1..(k - 1) :
       /\ IsBlockOpen(lines[a])
       /\ \A x \in (a + 1)..(k - 1) :
            ~IsBlockOpen(lines[x]) /\ ~IsBlockClose(lines[x])
  /\ \E b \in (k + 1)..Len(lines) :
       /\ IsBlockClose(lines[b])
       /\ \A x \in (k + 1)..(b - 1) :
            ~IsBlockOpen(lines[x]) /\ ~IsBlockClose(lines[x])

\* the content of a message has none of the delimiter lines of its raw
\* span and every line they enclose
BlockBodiesKept(content, m) ==
  LET lines == SplitLines(PySlice(content, m.char_start, m.char_end))
      kept == SplitLines(m.content)
  IN /\ \A n \in 1..Len(kept) :
          ~IsBlockOpen(kept[n]) /\ ~IsBlockClose(kept[n])
     /\ \A k \in 1..Len(lines) :
          Enclosed(lines, k) => \E n \in 1..Len(kept) : kept[n] = lines[k]

\* C27: strip_org_formatting removes the begin and end lines of literal,
\* quote and example blocks and keeps the lines between them as they are,
\* in initiator and in responder spans
C27_BlockBodiesKept ==
  pc = "extracted" =>
    \A j \in 1..Len(ext_messages) : BlockBodiesKept(buffer, ext_messages[j])

\* the two strings encode equally many pairs, none of the second smaller
\* than its counterpart in the first; a string without pairs comes before
\* any string
OffsetsNotBelow(old, new) ==
  parse_gptel_bounds(old) # <<>> =>
    /\ Len(parse_gptel_bounds(new)) = Len(parse_gptel_bounds(old))
    /\ \A i \in 1..Len(parse_gptel_bounds(old)) :
         /\ parse_gptel_bounds(new)[i][1] >= parse_gptel_bounds(old)[i][1]
         /\ parse_gptel_bounds(new)[i][2] >= parse_gptel_bounds(old)[i][2]

\* an iteration of the loop does not shorten the encoded string or the
\* header and lowers no encoded offset
IterationGrows ==
  /\ StrLen(new_bounds') >= StrLen(bounds_str)
  /\ StrLen(Props(new_bounds')) >= StrLen(Props(bounds_str))
  /\ OffsetsNotBelow(bounds_str, new_bounds')

\* an iteration has changed the encoded string into one of the same length
SameLengthStep == LoopStep /\ StrLen(bounds_str') = StrLen(bounds_str)

\* C28 (as stated): over the iterations of the loop the length of the
\* encoded string, the length of the header and every encoded offset never
\* decrease; an iteration that leaves the length of the string unchanged is
\* followed by an iteration that reproduces the string, at which the loop
\* stops
C28_GrowsThenRepeats ==
  [][/\ (LoopStep \/ LoopBreak) => IterationGrows
     /\ SameLengthStep =>
          /\ iter' < MaxIter
          /\ NewBounds(bounds_str', ai_positions) = bounds_str']_vars

\* the pairs are in ascending order and disjoint: S_i <= E_i < S_(i+1)
AscendingDisjoint(pairs) ==
  /\ \A i \in 1..Len(pairs) : pairs[i][1] <= pairs[i][2]
  /\ \A i \in 1..(Len(pairs) - 1) : pairs[i][2] < pairs[i + 1][1]

\* C29: the pairs build_org_file encodes are in ascending order and
\* pairwise disjoint, S_i <= E_i < S_(i+1) for consecutive responder
\* messages within or across conversations, in the recorded positions, in
\* every string the loop encodes and in the returned document
C29_PairsAscendingDisjoint ==
  /\ AscendingDisjoint(ai_positions)
  /\ AscendingDisjoint(parse_gptel_bounds(new_bounds))
  /\ Returned /\ Responders # <<>> =>
       /\ Len(EncodedPairs) = Len(ai_positions)
       /\ AscendingDisjoint(EncodedPairs)

\* C29 witness: a document of two conversations with a responder each is
\* returned; the pair of the first ends before the pair of the second
C29_Witness ==
  /\ Returned
  /\ Len(conversations) = 2
  /\ \A c \in 1..2 : \E m \in 1..Len(conversations[c].messages) :
       conversations[c].messages[m].role # "user"
  /\ Len(EncodedPairs) >= 2
  /\ EncodedPairs[1][2] < EncodedPairs[2][1]

\* the calls of the extractor that were given file-level marker i
CallsWithMarker(i) ==
  {j \in 1..Len(calls) :
     \E n \in 1..Len(calls[j].bounds) :
       <<calls[j].bounds[n][1] + calls[j].start_pos,
         calls[j].bounds[n][2] + calls[j].start_pos>> = file_props.bounds[1][i]}

\* the calls in which file-level marker i has a responder message
CallsWithResponder(i) ==
  {j \in 1..Len(calls) :
     \E n \in 1..Len(calls[j].messages) :
       /\ calls[j].messages[n].role = "assistant"
       /\ <<calls[j].messages[n].char_start + calls[j].start_pos,
            calls[j].messages[n].char_end + calls[j].start_pos>>
            = file_props.bounds[1][i]}

\* C30: for every document and every decoded marker list, each marker is
\* passed to the extractor for at most one section, so no marker's region
\* is responder content in two conversations
C30_OneSectionPerMarker ==
  sections # <<>> =>
    \A i \in 1..Len(file_props.bounds[1]) :
      /\ Cardinality(CallsWithMarker(i)) <= 1
      /\ Cardinality(CallsWithResponder(i)) <= 1
====
